---- MODULE Spec2Model ----
(***************************************************************************)
(* MCP Moni: the transaction-orchestration core (quote, swap, wrap/unwrap, *)
(* stake/unstake, transfer) as a state machine over a mocked chain client. *)
(*                                                                         *)
(* A behaviour is one call of one operation.  Every await of the source is *)
(* one action: the chain call it awaits, the outcome the chain client      *)
(* gives it, and the synchronous code that runs up to the next await.      *)
(* Symbols and amounts are strings of the source, modelled as sequences of *)
(* one-character strings so that toLowerCase, toUpperCase and parseUnits   *)
(* are computed and not assumed.                                           *)
(***************************************************************************)
EXTENDS Integers, Sequences, FiniteSets, TLC

VARIABLES
    privateKey,    \* process.env.TEST_WALLET_PRIVATE_KEY: "unset", "expected", "other"
    balance,       \* chain: wallet balance, [native |-> n, token |-> n] in model units
    allowance,     \* chain: ERC-20 allowance of the wallet, by <<token, spender>>
    configLoaded,  \* wrapUnwrap.ts module variables TOKEN_MAP/WMON_ABI/publicClient set
    op,            \* the operation called ("" while idle)
    args,          \* its arguments
    pc,            \* position of the running call
    caller,        \* frame awaiting a nested executeSwap: "none" or the caller's name
    loc,           \* locals of the called operation
    es,            \* locals of executeSwap (direct or nested)
    calls,         \* chain-client calls made by this call, in order
    result,        \* the value the call returned (meaningful when pc = "done")
    running        \* calls of wrapUnwrap.ts running at the same time, and who wrote
                   \* its module variables last

vars == <<privateKey, balance, allowance, configLoaded, op, args, pc, caller,
          loc, es, calls, result, running>>

----------------------------------------------------------------------------
(* Bounds of the model *)

\* Fractional digits kept by parseUnits in the model: a token of d decimals
\* is measured in units of 10^-min(d, MaxDigits).
MaxDigits == 2

\* Largest whole-token wallet balance / initial allowance the chain starts with.
MaxBalance == 1

----------------------------------------------------------------------------
(* Strings *)

LowerAlphabet == <<"a","b","c","d","e","f","g","h","i","j","k","l","m",
                   "n","o","p","q","r","s","t","u","v","w","x","y","z">>
UpperAlphabet == <<"A","B","C","D","E","F","G","H","I","J","K","L","M",
                   "N","O","P","Q","R","S","T","U","V","W","X","Y","Z">>

LowerChar(c) ==
    IF \E i \in 1..26 : UpperAlphabet[i] = c
    THEN LowerAlphabet[CHOOSE i \in 1..26 : UpperAlphabet[i] = c]
    ELSE c

UpperChar(c) ==
    IF \E i \in 1..26 : LowerAlphabet[i] = c
    THEN UpperAlphabet[CHOOSE i \in 1..26 : LowerAlphabet[i] = c]
    ELSE c

toLowerCase(s) == [i \in 1..Len(s) |-> LowerChar(s[i])]
toUpperCase(s) == [i \in 1..Len(s) |-> UpperChar(s[i])]

s_MON    == <<"M","O","N">>
s_WMON   == <<"W","M","O","N">>
s_aprMON == <<"a","p","r","M","O","N">>
s_USDC   == <<"U","S","D","C">>
s_USDT   == <<"U","S","D","T">>
s_WETH   == <<"W","E","T","H">>
s_WBTC   == <<"W","B","T","C">>
s_DAK    == <<"D","A","K">>
s_COG    == <<"C","O","G">>
s_YAKI   == <<"Y","A","K","I">>
s_shMON  == <<"s","h","M","O","N">>
s_gMON   == <<"g","M","O","N">>

----------------------------------------------------------------------------
(* config.ts: the token registry *)

\* Object.keys(TOKEN_MAP), in insertion order
TOKEN_KEYS == <<s_MON, s_WMON, s_aprMON, s_USDC, s_USDT, s_WETH, s_WBTC,
                s_DAK, s_COG, s_YAKI, s_shMON, s_gMON>>

TokenDecimals(sym) ==
    IF sym \in {s_USDC, s_USDT} THEN 6
    ELSE IF sym = s_WBTC THEN 8
    ELSE 18

\* TOKEN_MAP[sym] !== undefined
InTokenMap(sym) == \E i \in 1..Len(TOKEN_KEYS) : TOKEN_KEYS[i] = sym

\* Object.keys(TOKEN_MAP).find(key => key.toLowerCase() === s.toLowerCase());
\* <<>> stands for undefined
FindKey(s) ==
    LET hits == {i \in 1..Len(TOKEN_KEYS) : toLowerCase(TOKEN_KEYS[i]) = toLowerCase(s)}
    IN  IF hits = {} THEN <<>>
        ELSE TOKEN_KEYS[CHOOSE i \in hits : \A j \in hits : i <= j]

----------------------------------------------------------------------------
(* viem: parseUnits *)

Digits == <<"0","1","2","3","4","5","6","7","8","9">>
IsDigit(c) == \E i \in 1..10 : Digits[i] = c
DigitVal(c) == (CHOOSE i \in 1..10 : Digits[i] = c) - 1

RECURSIVE Pow10(_)
Pow10(n) == IF n = 0 THEN 1 ELSE 10 * Pow10(n - 1)

RECURSIVE DigitsVal(_)
DigitsVal(s) == IF Len(s) = 0 THEN 0
                ELSE 10 * DigitsVal(SubSeq(s, 1, Len(s) - 1)) + DigitVal(s[Len(s)])

IsNegative(s) == Len(s) > 0 /\ s[1] = "-"
Unsigned(s) == IF IsNegative(s) THEN Tail(s) ELSE s

\* /^(-?)([0-9]*)\.?([0-9]*)$/.test(value)
IsDecimalNumber(s) ==
    LET b == Unsigned(s)
    IN  /\ \A i \in 1..Len(b) : IsDigit(b[i]) \/ b[i] = "."
        /\ Cardinality({i \in 1..Len(b) : b[i] = "."}) <= 1

IntegerPart(s) ==
    LET b == Unsigned(s)
        dots == {i \in 1..Len(b) : b[i] = "."}
    IN  IF dots = {} THEN b ELSE SubSeq(b, 1, (CHOOSE i \in dots : TRUE) - 1)

FractionPart(s) ==
    LET b == Unsigned(s)
        dots == {i \in 1..Len(b) : b[i] = "."}
    IN  IF dots = {} THEN <<>> ELSE SubSeq(b, (CHOOSE i \in dots : TRUE) + 1, Len(b))

\* digits the model keeps for a token of `decimals` decimals
KeptDigits(decimals) == IF decimals > MaxDigits THEN MaxDigits ELSE decimals

\* parseUnits(value, decimals) for a value that passed IsDecimalNumber and has
\* at most KeptDigits(decimals) fractional digits: integer and fraction are
\* concatenated, the fraction padded with zeros to the token's precision
parseUnits(s, decimals) ==
    LET d == KeptDigits(decimals)
        f == FractionPart(s)
        mag == DigitsVal(IntegerPart(s)) * Pow10(d) + DigitsVal(f) * Pow10(d - Len(f))
    IN  IF IsNegative(s) THEN 0 - mag ELSE mag

----------------------------------------------------------------------------
(* Amounts too large for one machine integer: whole tokens and the units below *)

Unit == Pow10(MaxDigits)

Big(n) == [whole |-> n \div Unit, frac |-> n % Unit]

BigLt(x, y) == x.whole < y.whole \/ (x.whole = y.whole /\ x.frac < y.frac)

\* parseUnits(value, 18) kept as whole tokens and units
parseUnitsBig(s, decimals) ==
    LET d == KeptDigits(decimals)
        f == FractionPart(s)
    IN  [whole |-> DigitsVal(IntegerPart(s)), frac |-> DigitsVal(f) * Pow10(d - Len(f))]

\* BigInt division truncates toward zero
TruncDiv(a, b) == IF a >= 0 THEN a \div b ELSE 0 - ((0 - a) \div b)

----------------------------------------------------------------------------
(* Inputs the calls are made with *)

AmountInputs == { <<"0">>, <<"1">>, <<"1",".","5">>, <<"-","1">>, <<"x">> }

TokenInputs == { s_MON, s_USDC, s_aprMON, <<"a","p","r","m","o","n">>, <<"X","Y","Z">> }

\* slippagePercent, a JS number, in hundredths of a percent (200 is 2.0)
SlippageInputs == {0, 200, 255, 10000, 10010}

\* amounts[1] values a getAmountsOut read may return
ExpectedOutputs == {3, 1000000}

\* (token, spender) pairs an allowance is kept for
AllowanceKeys == {<<"aprMON", "router">>, <<"aprMON", "staking">>, <<"erc20", "router">>}

NoArgs == [amount |-> <<>>, fromToken |-> <<>>, toToken |-> <<>>, slippage |-> 0,
           useSwap |-> FALSE, token |-> <<>>, idsValid |-> TRUE,
           request |-> <<>>, invoked |-> ""]

NoLoc == [amountIn |-> 0, method |-> "", tokenSymbol |-> <<>>]

NoEs == [fromToken |-> <<>>, toToken |-> <<>>, amount |-> <<>>, slippage |-> 0,
         sourceToken |-> <<>>, destToken |-> <<>>, amountIn |-> 0,
         expectedOutput |-> 0, amountOutMin |-> 0,
         res |-> [success |-> FALSE, method |-> "", error |-> ""]]

NoResult == [success |-> FALSE, method |-> "", error |-> ""]

Success(m) == [success |-> TRUE, method |-> m, error |-> ""]
Failure(e) == [success |-> FALSE, method |-> "", error |-> e]

----------------------------------------------------------------------------
(* The chain client: every call is logged with what it was given and gave *)

\* kind: "read", "write" or "wait";  fn: the contract function (for a wait,
\* the function of the transaction waited for);  to: the contract called;
\* amt: the amount argument;  min: amountOutMin;  value: native value sent;
\* who: the spender of an approve, the recipient of a transfer;
\* cap: the amount of an approve, the value of an allowance read;  out: "ok", "throw" (the client reached the
\* network and failed), "rejected" (the client threw while encoding, nothing was
\* sent), and for a wait "success", "reverted" or "timeout";  ret: a read's value
Ev(kind, fn, to, who, amt, min, value, cap, out, ret) ==
    [kind |-> kind, fn |-> fn, to |-> to, who |-> who, amt |-> amt, min |-> min,
     value |-> value, cap |-> cap, out |-> out, ret |-> ret, path |-> <<>>]

Read(fn, to, amt, out, ret) == Ev("read", fn, to, "", amt, 0, 0, Big(0), out, ret)
Write(fn, to, who, amt, min, value, out) ==
    Ev("write", fn, to, who, amt, min, value, Big(0), out, 0)
Approve(to, who, cap, out) == Ev("write", "approve", to, who, 0, 0, 0, cap, out, 0)
Wait(fn, out) == Ev("wait", fn, "", "", 0, 0, 0, Big(0), out, 0)

ReadOutcomes == {"ok", "throw"}
WriteOutcomes == {"ok", "throw"}
\* waitForTransactionReceipt returns a receipt of either status, or throws on timeout
WaitOutcomes == {"success", "reverted", "timeout"}

\* encodeFunctionData / numberToHex reject a negative uint256 before anything is sent
WriteOutcomeOf(out, encodable) == IF encodable THEN out ELSE "rejected"

\* the transaction was handed to the network
Submitted(e) == e.kind = "write" /\ e.out = "ok"
\* the call reached the network (a chain read or chain write was attempted)
Attempted(e) == e.kind \in {"read", "write"} /\ e.out # "rejected"

BalanceOf(sym) == IF sym = s_MON THEN balance.native ELSE balance.token

\* the contract at TOKEN_MAP[sym].address; the Apriori staking contract is the
\* aprMON token contract (APRIORI_STAKING_ADDRESS = TOKEN_MAP.aprMON.address)
ContractOf(sym) == IF sym = s_aprMON THEN "aprMON"
                   ELSE IF sym = s_WMON THEN "WMON" ELSE "erc20"

AllowanceKey(sym, spender) ==
    IF sym = s_aprMON THEN <<"aprMON", spender>> ELSE <<"erc20", spender>>

----------------------------------------------------------------------------
\* the chain states a call is made in: [native balance, token balance, allowance]
ChainScenarios ==
    { [native |-> MaxBalance * Unit, token |-> MaxBalance * Unit, allowance |-> 0],
      [native |-> MaxBalance * Unit, token |-> MaxBalance * Unit,
       allowance |-> MaxBalance * Unit],
      [native |-> MaxBalance * Unit, token |-> 0, allowance |-> 0],
      [native |-> 0, token |-> 0, allowance |-> 0] }

\* who wrote the module variables of wrapUnwrap.ts last: nobody yet, the import
\* started at module load (line 32), or the importConfig() awaited by a call
Unset == 0 - 1
AtLoad == 0
Callers == {1, 2}

NoCall == [op |-> "", amount |-> <<>>, pc |-> "idle", amountIn |-> 0,
           calls |-> <<>>, readFrom |-> {}, result |-> NoResult]

\* an executeSwap call running next to another: seen is the router's allowance
\* at the moment its swap was submitted (Unset before)
NoSwapCall == [pc |-> "idle", amountIn |-> 0, seen |-> Unset, result |-> NoResult]

NoneRunning == [writer |-> Unset, loaded |-> FALSE, call |-> [i \in Callers |-> NoCall],
                swap |-> [i \in Callers |-> NoSwapCall], routerAllowance |-> 0]

Init ==
    /\ running = NoneRunning
    /\ privateKey \in {"unset", "expected", "other"}
    /\ \E c \in ChainScenarios :
        /\ balance = [native |-> c.native, token |-> c.token]
        /\ allowance = [k \in AllowanceKeys |-> Big(c.allowance)]
        \* the chain is varied under the configured wallet only
        /\ privateKey # "expected" => c.token = MaxBalance * Unit /\ c.allowance = 0
    /\ configLoaded = FALSE
    /\ op = ""
    /\ args = NoArgs
    /\ pc = "idle"
    /\ caller = "none"
    /\ loc = NoLoc
    /\ es = NoEs
    /\ calls = <<>>
    /\ result = NoResult

chain == <<privateKey, balance, allowance>>

\* the called operation returns r
Return(r) == /\ pc' = "done"
             /\ result' = r

----------------------------------------------------------------------------
(* swap.ts *)

\* a resolution that looks the upper-cased string up as it is
NormalizeUpperOnly(s) == IF InTokenMap(toUpperCase(s)) THEN toUpperCase(s) ELSE <<>>

\* lines 115-128 / 209-222: the canonical symbol of s, <<>> when unsupported
Normalize(s) ==
    IF FindKey(s) = <<>> /\ toUpperCase(s) # s_MON THEN <<>>
    ELSE IF toUpperCase(s) = s_MON THEN s_MON ELSE FindKey(s)

\* sourceTokenInfo / destTokenInfo: WMON stands in for native MON
TokenInfoSymbol(sym) == IF sym = s_MON THEN s_WMON ELSE sym

\* BigInt(slippagePercent * 10) throws a RangeError unless the product is an
\* integer; for a slippage of h hundredths the double product is h/10, an integer
\* exactly when h is a multiple of 10
SlippageIsIntegral(h) == h % 10 = 0

\* a factor that reads the slippage as whole percents of a hundred
slippageFactorPercent(h) == 100 - (h \div 100)

slippageFactor(h) == 1000 - (h \div 10)

amountOutMin(expectedOutput, h) == TruncDiv(expectedOutput * slippageFactor(h), 1000)

\* a token's address, written as the token's registry symbol
s_sMON == <<"s", "M", "O", "N">>

\* lines 132-136 / 350: [sourceTokenInfo.address, destTokenInfo.address]
TwoHopPath(src, dst) == <<TokenInfoSymbol(src), TokenInfoSymbol(dst)>>

\* lines 259-263: aprMON, sMON, WMON
SpecialPath == <<s_aprMON, s_sMON, s_WMON>>

\* the aprMON -> MON special case of executeSwap
IsSpecialCase(e) == e.sourceToken = s_aprMON /\ e.destToken = s_MON

\* executeSwap up to its first await (lines 186-242): the error thrown, "" if
\* none, and the frame
ExecuteSwapEntry(f, t, a, h) ==
    LET src == Normalize(f)
        dst == Normalize(t)
        err == IF privateKey = "unset" THEN "Private key not found"
               ELSE IF src = <<>> THEN "Source token not supported"
               ELSE IF dst = <<>> THEN "Destination token not supported"
               ELSE IF ~IsDecimalNumber(a) THEN "InvalidDecimalNumber"
               ELSE ""
    IN  [err |-> err,
         frame |-> [NoEs EXCEPT !.fromToken = f, !.toToken = t, !.amount = a,
                                !.slippage = h,
                                !.sourceToken = IF err = "" THEN src ELSE <<>>,
                                !.destToken = IF err = "" THEN dst ELSE <<>>,
                                !.amountIn = IF err = "" THEN
                                    parseUnits(a, TokenDecimals(TokenInfoSymbol(src)))
                                             ELSE 0]]

\* executeSwap returns r to whoever awaits it
ES_Finish(frame, r) ==
    /\ es' = [frame EXCEPT !.res = r]
    /\ IF caller = "none"
       THEN pc' = "done" /\ result' = r
       ELSE /\ pc' = IF caller = "requestUnstakeAprMON" THEN "ru_swap_returned"
                     ELSE "eu_swap_returned"
            /\ result' = result

Call_executeSwap(f, t, a, h) ==
    /\ pc = "idle"
    /\ op' = "executeSwap"
    /\ args' = [NoArgs EXCEPT !.fromToken = f, !.toToken = t, !.amount = a, !.slippage = h]
    /\ LET e == ExecuteSwapEntry(f, t, a, h)
       IN  IF e.err # "" THEN /\ ES_Finish(e.frame, Failure(e.err))
           ELSE /\ es' = e.frame
                /\ pc' = "es_getBlock"
                /\ result' = result
    /\ UNCHANGED <<chain, configLoaded, running, caller, loc, calls>>

\* line 245: publicClient.getBlock()
ES_GetBlock ==
    /\ pc = "es_getBlock"
    /\ \E out \in ReadOutcomes :
        /\ calls' = Append(calls, Read("getBlock", "chain", 0, out, 0))
        /\ IF out = "throw" THEN ES_Finish(es, Failure("getBlock failed"))
           ELSE /\ pc' = IF IsSpecialCase(es) THEN "es_sp_approve" ELSE "es_quote"
                /\ UNCHANGED <<es, result>>
    /\ UNCHANGED <<chain, configLoaded, running, op, args, caller, loc>>

\* lines 268-276: approve(router, amountIn) on aprMON, unconditionally
ES_SpApprove ==
    /\ pc = "es_sp_approve"
    /\ \E o \in WriteOutcomes :
        LET out == WriteOutcomeOf(o, es.amountIn >= 0)
        IN  /\ calls' = Append(calls, Approve("aprMON", "router", Big(es.amountIn), out))
            /\ IF out # "ok" THEN ES_Finish(es, Failure("approve failed"))
               ELSE pc' = "es_sp_approve_wait" /\ UNCHANGED <<es, result>>
    /\ UNCHANGED <<chain, configLoaded, running, op, args, caller, loc>>

\* lines 281-285: the receipt's status is not looked at
ES_SpApproveWait ==
    /\ pc = "es_sp_approve_wait"
    /\ \E out \in WaitOutcomes :
        /\ calls' = Append(calls, Wait("approve", out))
        /\ allowance' = IF out = "success"
                        THEN [allowance EXCEPT ![<<"aprMON", "router">>] = Big(es.amountIn)]
                        ELSE allowance
        /\ IF out = "timeout" THEN ES_Finish(es, Failure("approval wait timed out"))
           ELSE pc' = "es_sp_swap" /\ UNCHANGED <<es, result>>
    /\ UNCHANGED <<privateKey, balance, configLoaded, running, op, args, caller, loc>>

\* lines 288-321: the approximate expected output, the slippage floor, then
\* swapExactTokensForETH along the fixed path
ES_SpSwap ==
    /\ pc = "es_sp_swap"
    /\ LET expOut == TruncDiv(es.amountIn * 9988, 10000)
           min == amountOutMin(expOut, es.slippage)
           frame == [es EXCEPT !.expectedOutput = expOut,
                               !.amountOutMin = IF SlippageIsIntegral(es.slippage)
                                                THEN min ELSE 0]
       IN  IF ~SlippageIsIntegral(es.slippage)
           THEN /\ ES_Finish(frame, Failure("RangeError"))
                /\ calls' = calls
           ELSE \E o \in WriteOutcomes :
                LET out == WriteOutcomeOf(o, es.amountIn >= 0 /\ min >= 0)
                IN  /\ calls' = Append(calls,
                          [Write("swapExactTokensForETH", "router", "", es.amountIn,
                                 min, 0, out) EXCEPT !.path = SpecialPath])
                    /\ IF out # "ok" THEN ES_Finish(frame, Failure("swap failed"))
                       ELSE pc' = "es_sp_swap_wait" /\ es' = frame /\ result' = result
    /\ UNCHANGED <<chain, configLoaded, running, op, args, caller, loc>>

\* lines 327-345: success is returned whatever the receipt's status
ES_SpSwapWait ==
    /\ pc = "es_sp_swap_wait"
    /\ \E out \in WaitOutcomes :
        /\ calls' = Append(calls, Wait("swapExactTokensForETH", out))
        /\ IF out = "timeout" THEN ES_Finish(es, Failure("swap wait timed out"))
           ELSE ES_Finish(es, Success("swap"))
    /\ UNCHANGED <<chain, configLoaded, running, op, args, caller, loc>>

\* lines 350-358: getAmountsOut(amountIn, [source, dest])
ES_GetAmountsOut ==
    /\ pc = "es_quote"
    /\ \E o \in ReadOutcomes, ret \in ExpectedOutputs \cup {0} :
        LET out == WriteOutcomeOf(o, es.amountIn >= 0)
        IN  /\ (out = "ok") = (ret \in ExpectedOutputs)
            /\ calls' = Append(calls,
                  [Read("getAmountsOut", "router", es.amountIn, out, ret)
                      EXCEPT !.path = TwoHopPath(es.sourceToken, es.destToken)])
            /\ IF out # "ok" THEN ES_Finish(es, Failure("getAmountsOut failed"))
               ELSE /\ pc' = "es_act"
                    /\ es' = [es EXCEPT !.expectedOutput = ret]
                    /\ result' = result
    /\ UNCHANGED <<chain, configLoaded, running, op, args, caller, loc>>

\* lines 361-385: the slippage floor, then swapExactETHForTokens with value
ES_SwapETHForTokens ==
    /\ pc = "es_act"
    /\ es.sourceToken = s_MON
    /\ LET min == amountOutMin(es.expectedOutput, es.slippage)
           frame == [es EXCEPT !.amountOutMin = IF SlippageIsIntegral(es.slippage)
                                                THEN min ELSE 0]
       IN  IF ~SlippageIsIntegral(es.slippage)
           THEN /\ ES_Finish(frame, Failure("RangeError"))
                /\ calls' = calls
           ELSE \E o \in WriteOutcomes :
                LET out == WriteOutcomeOf(o, es.amountIn >= 0 /\ min >= 0)
                IN  /\ calls' = Append(calls,
                          [Write("swapExactETHForTokens", "router", "", 0, min,
                                 es.amountIn, out)
                              EXCEPT !.path = TwoHopPath(es.sourceToken, es.destToken)])
                    /\ IF out # "ok" THEN ES_Finish(frame, Failure("swap failed"))
                       ELSE pc' = "es_swap_wait" /\ es' = frame /\ result' = result
    /\ UNCHANGED <<chain, configLoaded, running, op, args, caller, loc>>

\* an approval step that is taken for a native source too
ES_ApproveAnySource ==
    /\ pc = "es_act"
    /\ LET min == amountOutMin(es.expectedOutput, es.slippage)
           frame == [es EXCEPT !.amountOutMin = IF SlippageIsIntegral(es.slippage)
                                                THEN min ELSE 0]
       IN  IF ~SlippageIsIntegral(es.slippage)
           THEN /\ ES_Finish(frame, Failure("RangeError"))
                /\ calls' = calls
           ELSE \E o \in WriteOutcomes :
                LET out == WriteOutcomeOf(o, es.amountIn >= 0)
                IN  /\ calls' = Append(calls, Approve(ContractOf(es.sourceToken), "router",
                                                      Big(es.amountIn), out))
                    /\ IF out # "ok" THEN ES_Finish(frame, Failure("approve failed"))
                       ELSE pc' = "es_approve_wait" /\ es' = frame /\ result' = result
    /\ UNCHANGED <<chain, configLoaded, running, op, args, caller, loc>>

\* lines 361-363, 391-399 / 428-436: the slippage floor, then
\* approve(router, amountIn) on the source token, unconditionally
ES_Approve ==
    /\ pc = "es_act"
    /\ es.sourceToken # s_MON
    /\ LET min == amountOutMin(es.expectedOutput, es.slippage)
           frame == [es EXCEPT !.amountOutMin = IF SlippageIsIntegral(es.slippage)
                                                THEN min ELSE 0]
       IN  IF ~SlippageIsIntegral(es.slippage)
           THEN /\ ES_Finish(frame, Failure("RangeError"))
                /\ calls' = calls
           ELSE \E o \in WriteOutcomes :
                LET out == WriteOutcomeOf(o, es.amountIn >= 0)
                IN  /\ calls' = Append(calls, Approve(ContractOf(es.sourceToken), "router",
                                                      Big(es.amountIn), out))
                    /\ IF out # "ok" THEN ES_Finish(frame, Failure("approve failed"))
                       ELSE pc' = "es_approve_wait" /\ es' = frame /\ result' = result
    /\ UNCHANGED <<chain, configLoaded, running, op, args, caller, loc>>

\* a wait whose timeout is swallowed, so that the swap follows an approval
\* that was never confirmed
ES_ApproveWaitSwallowed ==
    /\ pc = "es_approve_wait"
    /\ \E out \in WaitOutcomes :
        /\ calls' = Append(calls, Wait("approve", out))
        /\ allowance' = IF out = "success"
                        THEN [allowance EXCEPT ![AllowanceKey(es.sourceToken, "router")] =
                                                   Big(es.amountIn)]
                        ELSE allowance
        /\ pc' = "es_swap" /\ UNCHANGED <<es, result>>
    /\ UNCHANGED <<privateKey, balance, configLoaded, running, op, args, caller, loc>>

\* lines 404-408 / 441-445
ES_ApproveWait ==
    /\ pc = "es_approve_wait"
    /\ \E out \in WaitOutcomes :
        /\ calls' = Append(calls, Wait("approve", out))
        /\ allowance' = IF out = "success"
                        THEN [allowance EXCEPT ![AllowanceKey(es.sourceToken, "router")] =
                                                   Big(es.amountIn)]
                        ELSE allowance
        /\ IF out = "timeout" THEN ES_Finish(es, Failure("approval wait timed out"))
           ELSE pc' = "es_swap" /\ UNCHANGED <<es, result>>
    /\ UNCHANGED <<privateKey, balance, configLoaded, running, op, args, caller, loc>>

\* a choice of router function that ignores a native destination
SwapFunctionTokensOnly(e) == "swapExactTokensForTokens"

\* the router function of the ERC-20 source legs (lines 414, 451)
SwapFunction(e) == IF e.destToken = s_MON THEN "swapExactTokensForETH"
                   ELSE "swapExactTokensForTokens"

\* lines 411-422 / 448-459
ES_SwapTokens ==
    /\ pc = "es_swap"
    /\ \E o \in WriteOutcomes :
        LET out == WriteOutcomeOf(o, es.amountIn >= 0 /\ es.amountOutMin >= 0)
        IN  /\ calls' = Append(calls,
                  [Write(SwapFunction(es), "router", "", es.amountIn, es.amountOutMin,
                         0, out)
                      EXCEPT !.path = TwoHopPath(es.sourceToken, es.destToken)])
            /\ IF out # "ok" THEN ES_Finish(es, Failure("swap failed"))
               ELSE pc' = "es_swap_wait" /\ UNCHANGED <<es, result>>
    /\ UNCHANGED <<chain, configLoaded, running, op, args, caller, loc>>

\* lines 466-496: the receipt's status decides
ES_SwapWait ==
    /\ pc = "es_swap_wait"
    /\ \E out \in WaitOutcomes :
        /\ calls' = Append(calls, Wait(calls[Len(calls)].fn, out))
        /\ IF out = "timeout" THEN ES_Finish(es, Failure("swap wait timed out"))
           ELSE IF out = "reverted" THEN ES_Finish(es, Failure("Swap transaction reverted"))
           ELSE ES_Finish(es, Success("swap"))
    /\ UNCHANGED <<chain, configLoaded, running, op, args, caller, loc>>

\* getSwapQuote up to its await (lines 109-145)
Call_getSwapQuote(f, t, a) ==
    /\ pc = "idle"
    /\ op' = "getSwapQuote"
    /\ args' = [NoArgs EXCEPT !.fromToken = f, !.toToken = t, !.amount = a]
    /\ LET src == Normalize(f)
           dst == Normalize(t)
           err == IF src = <<>> THEN "Source token not supported"
                  ELSE IF dst = <<>> THEN "Destination token not supported"
                  ELSE IF ~IsDecimalNumber(a) THEN "InvalidDecimalNumber"
                  ELSE ""
       IN  IF err # "" THEN Return(Failure(err)) /\ loc' = loc
           ELSE /\ pc' = "gq_quote"
                /\ loc' = [NoLoc EXCEPT !.amountIn =
                              parseUnits(a, TokenDecimals(TokenInfoSymbol(src)))]
                /\ result' = result
    /\ UNCHANGED <<chain, configLoaded, running, caller, es, calls>>

\* lines 147-167
GQ_GetAmountsOut ==
    /\ pc = "gq_quote"
    /\ \E o \in ReadOutcomes, ret \in ExpectedOutputs \cup {0} :
        LET out == WriteOutcomeOf(o, loc.amountIn >= 0)
        IN  /\ (out = "ok") = (ret \in ExpectedOutputs)
            /\ calls' = Append(calls,
                  [Read("getAmountsOut", "router", loc.amountIn, out, ret)
                      EXCEPT !.path = TwoHopPath(Normalize(args.fromToken),
                                                 Normalize(args.toToken))])
            /\ IF out # "ok" THEN Return(Failure("getAmountsOut failed"))
               ELSE Return(Success("quote"))
    /\ UNCHANGED <<chain, configLoaded, running, op, args, caller, loc, es>>

----------------------------------------------------------------------------
(* staking: stakeMON, requestUnstakeAprMON, claimUnstakedMON *)

\* line 262: parseUnits("1000000000", 18)
ApprovalCeiling == parseUnitsBig(<<"1","0","0","0","0","0","0","0","0","0">>, 18)

\* lines 213-239
Call_requestUnstakeAprMON(a, useSwap) ==
    /\ pc = "idle"
    /\ op' = "requestUnstakeAprMON"
    /\ args' = [NoArgs EXCEPT !.amount = a, !.useSwap = useSwap]
    /\ IF privateKey = "unset" THEN Return(Failure("Private key not found")) /\ loc' = loc
       ELSE IF ~IsDecimalNumber(a) THEN Return(Failure("InvalidDecimalNumber")) /\ loc' = loc
       ELSE /\ pc' = "ru_allowance"
            /\ loc' = [NoLoc EXCEPT !.amountIn = parseUnits(a, 18)]
            /\ result' = result
    /\ UNCHANGED <<chain, configLoaded, running, caller, es, calls>>

\* lines 244-252: allowance(account, staking contract), then the comparison
RU_Allowance ==
    /\ pc = "ru_allowance"
    /\ \E out \in ReadOutcomes :
        /\ calls' = Append(calls, Ev("read", "allowance", "aprMON", "staking",
                                     0, 0, 0, allowance[<<"aprMON", "staking">>], out, 0))
        /\ IF out = "throw" THEN Return(Failure("allowance read failed"))
           ELSE /\ pc' = IF BigLt(allowance[<<"aprMON", "staking">>], Big(loc.amountIn))
                         THEN "ru_approve" ELSE "ru_act"
                /\ result' = result
    /\ UNCHANGED <<chain, configLoaded, running, op, args, caller, loc, es>>

\* lines 256-264: approve(staking contract, ceiling)
RU_Approve ==
    /\ pc = "ru_approve"
    /\ \E out \in WriteOutcomes :
        /\ calls' = Append(calls, Approve("aprMON", "staking", ApprovalCeiling, out))
        /\ IF out # "ok" THEN Return(Failure("approve failed"))
           ELSE pc' = "ru_approve_wait" /\ result' = result
    /\ UNCHANGED <<chain, configLoaded, running, op, args, caller, loc, es>>

\* lines 269-273
RU_ApproveWait ==
    /\ pc = "ru_approve_wait"
    /\ \E out \in WaitOutcomes :
        /\ calls' = Append(calls, Wait("approve", out))
        /\ allowance' = IF out = "success"
                        THEN [allowance EXCEPT ![<<"aprMON", "staking">>] = ApprovalCeiling]
                        ELSE allowance
        /\ IF out = "timeout" THEN Return(Failure("approval wait timed out"))
           ELSE pc' = "ru_act" /\ result' = result
    /\ UNCHANGED <<privateKey, balance, configLoaded, running, op, args, caller, loc, es>>

\* lines 284-293: executeSwap('aprMON', 'MON', amount, 5.0), up to its first await
RU_CallSwap ==
    /\ pc = "ru_act"
    /\ args.useSwap
    /\ LET e == ExecuteSwapEntry(s_aprMON, s_MON, args.amount, 500)
       IN  IF e.err # ""
           THEN /\ es' = [e.frame EXCEPT !.res = Failure(e.err)]
                /\ Return(Failure("Swap failed"))
                /\ caller' = caller
           ELSE /\ es' = e.frame
                /\ caller' = "requestUnstakeAprMON"
                /\ pc' = "es_getBlock"
                /\ result' = result
    /\ UNCHANGED <<chain, configLoaded, running, op, args, loc, calls>>

\* lines 295-308
RU_SwapReturned ==
    /\ pc = "ru_swap_returned"
    /\ caller' = "none"
    /\ IF es.res.success THEN Return(Success("swap")) ELSE Return(Failure("Swap failed"))
    /\ UNCHANGED <<chain, configLoaded, running, op, args, loc, es, calls>>

\* a withdraw without the catch: its throw ends the operation
RU_WithdrawNoFallback ==
    /\ pc = "ru_act"
    /\ ~args.useSwap
    /\ \E o \in WriteOutcomes :
        LET out == WriteOutcomeOf(o, loc.amountIn >= 0)
        IN  /\ calls' = Append(calls, Write("withdraw", "aprMON", "wallet",
                                            loc.amountIn, 0, 0, out))
            /\ IF out # "ok" THEN Return(Failure("withdraw failed")) /\ loc' = loc
               ELSE /\ pc' = "ru_withdraw_wait"
                    /\ loc' = [loc EXCEPT !.method = "withdraw"]
                    /\ result' = result
    /\ UNCHANGED <<chain, configLoaded, running, op, args, caller, es>>

\* a withdraw that is attempted whatever useSwap says
RU_WithdrawAnyMode ==
    /\ pc = "ru_act"
    /\ \E o \in WriteOutcomes :
        LET out == WriteOutcomeOf(o, loc.amountIn >= 0)
        IN  /\ calls' = Append(calls, Write("withdraw", "aprMON", "wallet",
                                            loc.amountIn, 0, 0, out))
            /\ IF out # "ok" THEN pc' = "ru_transfer" /\ loc' = loc
               ELSE pc' = "ru_withdraw_wait" /\ loc' = [loc EXCEPT !.method = "withdraw"]
    /\ UNCHANGED <<chain, configLoaded, running, op, args, caller, es, result>>

\* lines 315-324: withdraw(amountIn, account, account); a throw enters the catch
RU_Withdraw ==
    /\ pc = "ru_act"
    /\ ~args.useSwap
    /\ \E o \in WriteOutcomes :
        LET out == WriteOutcomeOf(o, loc.amountIn >= 0)
        IN  /\ calls' = Append(calls, Write("withdraw", "aprMON", "wallet",
                                            loc.amountIn, 0, 0, out))
            /\ IF out # "ok" THEN pc' = "ru_transfer" /\ loc' = loc
               ELSE pc' = "ru_withdraw_wait" /\ loc' = [loc EXCEPT !.method = "withdraw"]
    /\ UNCHANGED <<chain, configLoaded, running, op, args, caller, es, result>>

\* lines 325-328, 347-355: the wait is inside the try; its throw enters the catch
RU_WithdrawWait ==
    /\ pc = "ru_withdraw_wait"
    /\ \E out \in WaitOutcomes :
        /\ calls' = Append(calls, Wait("withdraw", out))
        /\ IF out = "timeout" THEN pc' = "ru_transfer" /\ result' = result
           ELSE Return(Success(loc.method))
    /\ UNCHANGED <<chain, configLoaded, running, op, args, caller, loc, es>>

\* a transfer whose throw is reported as a success
RU_TransferForgiving ==
    /\ pc = "ru_transfer"
    /\ \E o \in WriteOutcomes :
        LET out == WriteOutcomeOf(o, loc.amountIn >= 0)
        IN  /\ calls' = Append(calls, Write("transfer", "aprMON", "staking",
                                            loc.amountIn, 0, 0, out))
            /\ IF out # "ok" THEN Return(Success("transfer")) /\ loc' = loc
               ELSE /\ pc' = "ru_transfer_wait"
                    /\ loc' = [loc EXCEPT !.method = "transfer"]
                    /\ result' = result
    /\ UNCHANGED <<chain, configLoaded, running, op, args, caller, es>>

\* lines 332-342: transfer(staking contract, amountIn)
RU_Transfer ==
    /\ pc = "ru_transfer"
    /\ \E o \in WriteOutcomes :
        LET out == WriteOutcomeOf(o, loc.amountIn >= 0)
        IN  /\ calls' = Append(calls, Write("transfer", "aprMON", "staking",
                                            loc.amountIn, 0, 0, out))
            /\ IF out # "ok" THEN Return(Failure("transfer failed")) /\ loc' = loc
               ELSE /\ pc' = "ru_transfer_wait"
                    /\ loc' = [loc EXCEPT !.method = "transfer"]
                    /\ result' = result
    /\ UNCHANGED <<chain, configLoaded, running, op, args, caller, es>>

\* lines 343-355
RU_TransferWait ==
    /\ pc = "ru_transfer_wait"
    /\ \E out \in WaitOutcomes :
        /\ calls' = Append(calls, Wait("transfer", out))
        /\ IF out = "timeout" THEN Return(Failure("transfer wait timed out"))
           ELSE Return(Success(loc.method))
    /\ UNCHANGED <<chain, configLoaded, running, op, args, caller, loc, es>>

\* a stakeMON that does not compare the derived address with the expected one
Call_stakeMONAnyKey(a) ==
    /\ pc = "idle"
    /\ op' = "stakeMON"
    /\ args' = [NoArgs EXCEPT !.amount = a]
    /\ IF privateKey = "unset" THEN Return(Failure("Private key not found")) /\ loc' = loc
       ELSE IF ~IsDecimalNumber(a) THEN Return(Failure("InvalidDecimalNumber")) /\ loc' = loc
       ELSE /\ pc' = "sm_balance"
            /\ loc' = [NoLoc EXCEPT !.amountIn = parseUnits(a, 18)]
            /\ result' = result
    /\ UNCHANGED <<chain, configLoaded, running, caller, es, calls>>

\* lines 126-148
Call_stakeMON(a) ==
    /\ pc = "idle"
    /\ op' = "stakeMON"
    /\ args' = [NoArgs EXCEPT !.amount = a]
    /\ IF privateKey = "unset" THEN Return(Failure("Private key not found")) /\ loc' = loc
       ELSE IF privateKey # "expected"
       THEN Return(Failure("Private key generates different address")) /\ loc' = loc
       ELSE IF ~IsDecimalNumber(a) THEN Return(Failure("InvalidDecimalNumber")) /\ loc' = loc
       ELSE /\ pc' = "sm_balance"
            /\ loc' = [NoLoc EXCEPT !.amountIn = parseUnits(a, 18)]
            /\ result' = result
    /\ UNCHANGED <<chain, configLoaded, running, caller, es, calls>>

\* lines 150-156
SM_GetBalance ==
    /\ pc = "sm_balance"
    /\ \E out \in ReadOutcomes :
        /\ calls' = Append(calls, Read("getBalance", "chain", 0, out, balance.native))
        /\ IF out = "throw" THEN Return(Failure("getBalance failed"))
           ELSE IF balance.native < loc.amountIn
           THEN Return(Failure("Insufficient MON balance"))
           ELSE pc' = "sm_deposit" /\ result' = result
    /\ UNCHANGED <<chain, configLoaded, running, op, args, caller, loc, es>>

\* lines 167-173: deposit(amountIn, account) with value amountIn
SM_Deposit ==
    /\ pc = "sm_deposit"
    /\ \E o \in WriteOutcomes :
        LET out == WriteOutcomeOf(o, loc.amountIn >= 0)
        IN  /\ calls' = Append(calls, Write("deposit", "aprMON", "wallet",
                                            loc.amountIn, 0, loc.amountIn, out))
            /\ IF out # "ok" THEN Return(Failure("deposit failed"))
               ELSE pc' = "sm_wait" /\ result' = result
    /\ UNCHANGED <<chain, configLoaded, running, op, args, caller, loc, es>>

\* lines 177-196
SM_Wait ==
    /\ pc = "sm_wait"
    /\ \E out \in WaitOutcomes :
        /\ calls' = Append(calls, Wait("deposit", out))
        /\ IF out = "timeout" THEN Return(Failure("deposit wait timed out"))
           ELSE IF out = "reverted" THEN Return(Failure("Staking transaction reverted"))
           ELSE Return(Success("deposit"))
    /\ UNCHANGED <<chain, configLoaded, running, op, args, caller, loc, es>>

\* a claim that goes ahead without looking at the key
Call_claimUnstakedMONKeyless(idsValid) ==
    /\ pc = "idle"
    /\ op' = "claimUnstakedMON"
    /\ args' = [NoArgs EXCEPT !.idsValid = idsValid]
    /\ IF ~idsValid THEN Return(Failure("SyntaxError"))
       ELSE pc' = "cl_claim" /\ result' = result
    /\ UNCHANGED <<chain, configLoaded, running, caller, loc, es, calls>>

\* lines 460-467: BigInt(id) throws on an id that is no integer literal
Call_claimUnstakedMON(idsValid) ==
    /\ pc = "idle"
    /\ op' = "claimUnstakedMON"
    /\ args' = [NoArgs EXCEPT !.idsValid = idsValid]
    /\ IF privateKey = "unset" THEN Return(Failure("Private key not found"))
       ELSE IF ~idsValid THEN Return(Failure("SyntaxError"))
       ELSE pc' = "cl_claim" /\ result' = result
    /\ UNCHANGED <<chain, configLoaded, running, caller, loc, es, calls>>

\* lines 468-473
CL_Claim ==
    /\ pc = "cl_claim"
    /\ \E out \in WriteOutcomes :
        /\ calls' = Append(calls, Write("claim", "aprMON", "", 0, 0, 0, out))
        /\ IF out # "ok" THEN Return(Failure("claim failed"))
           ELSE pc' = "cl_wait" /\ result' = result
    /\ UNCHANGED <<chain, configLoaded, running, op, args, caller, loc, es>>

\* lines 474-475: success is returned whatever the receipt's status
CL_Wait ==
    /\ pc = "cl_wait"
    /\ \E out \in WaitOutcomes :
        /\ calls' = Append(calls, Wait("claim", out))
        /\ IF out = "timeout" THEN Return(Failure("claim wait timed out"))
           ELSE Return(Success("claim"))
    /\ UNCHANGED <<chain, configLoaded, running, op, args, caller, loc, es>>

\* the canned response of the two disabled tools
FeatureDisabled == Failure("Claim Feature Disabled")

\* an execute-claim that hands its request ids to claimUnstakedMON
Call_executeClaimEnabled(idsValid) ==
    /\ pc = "idle"
    /\ op' = "execute-claim"
    /\ args' = [NoArgs EXCEPT !.idsValid = idsValid]
    /\ IF privateKey = "unset" THEN Return(Failure("Private key not found"))
       ELSE IF ~idsValid THEN Return(Failure("SyntaxError"))
       ELSE pc' = "cl_claim" /\ result' = result
    /\ UNCHANGED <<chain, configLoaded, running, caller, loc, es, calls>>

\* index.ts lines 1162-1192: execute-claim returns the canned text and does not
\* look at requestIds
Call_executeClaim(idsValid) ==
    /\ pc = "idle"
    /\ op' = "execute-claim"
    /\ args' = [NoArgs EXCEPT !.idsValid = idsValid]
    /\ Return(FeatureDisabled)
    /\ UNCHANGED <<chain, configLoaded, running, caller, loc, es, calls>>

\* index.ts lines 1131-1159: get-pending-withdrawals takes no argument
Call_getPendingWithdrawals ==
    /\ pc = "idle"
    /\ op' = "get-pending-withdrawals"
    /\ args' = NoArgs
    /\ Return(FeatureDisabled)
    /\ UNCHANGED <<chain, configLoaded, running, caller, loc, es, calls>>

----------------------------------------------------------------------------
(* nft: createNFTCollection *)

\* config.mintPrice values the collection is created with
MintPriceInputs == { <<"0">>, <<"x">> }

\* lines 217-264: the key check, the wallet client, the simulated metadata upload
Call_createNFTCollection(price) ==
    /\ pc = "idle"
    /\ op' = "createNFTCollection"
    /\ args' = [NoArgs EXCEPT !.amount = price]
    /\ IF privateKey = "unset"
       THEN Return(Failure("No test wallet private key found in .env file"))
       ELSE pc' = "nft_deploy" /\ result' = result
    /\ UNCHANGED <<chain, configLoaded, running, caller, loc, es, calls>>

\* lines 272-283: createCollection on the launchpad
NFT_Deploy ==
    /\ pc = "nft_deploy"
    /\ \E out \in WriteOutcomes :
        /\ calls' = Append(calls, Write("createCollection", "launchpad", "", 0, 0, 0, out))
        /\ IF out # "ok" THEN Return(Failure("createCollection failed"))
           ELSE pc' = "nft_deploy_wait" /\ result' = result
    /\ UNCHANGED <<chain, configLoaded, running, op, args, caller, loc, es>>

\* lines 289-293: the receipt's status is not looked at
NFT_DeployWait ==
    /\ pc = "nft_deploy_wait"
    /\ \E out \in WaitOutcomes :
        /\ calls' = Append(calls, Wait("createCollection", out))
        /\ IF out = "timeout" THEN Return(Failure("createCollection wait timed out"))
           ELSE pc' = "nft_configure" /\ result' = result
    /\ UNCHANGED <<chain, configLoaded, running, op, args, caller, loc, es>>

\* lines 308-336: parseUnits(config.mintPrice, 18), then setInitialConfig on the
\* collection
NFT_Configure ==
    /\ pc = "nft_configure"
    /\ IF ~IsDecimalNumber(args.amount)
       THEN Return(Failure("InvalidDecimalNumber")) /\ calls' = calls
       ELSE \E o \in WriteOutcomes :
            LET out == WriteOutcomeOf(o, parseUnits(args.amount, 18) >= 0)
            IN  /\ calls' = Append(calls, Write("setInitialConfig", "collection", "",
                                                0, 0, 0, out))
                /\ IF out # "ok" THEN Return(Failure("setInitialConfig failed"))
                   ELSE pc' = "nft_configure_wait" /\ result' = result
    /\ UNCHANGED <<chain, configLoaded, running, op, args, caller, loc, es>>

\* lines 341-371
NFT_ConfigureWait ==
    /\ pc = "nft_configure_wait"
    /\ \E out \in WaitOutcomes :
        /\ calls' = Append(calls, Wait("setInitialConfig", out))
        /\ IF out = "timeout" THEN Return(Failure("setInitialConfig wait timed out"))
           ELSE Return(Success("createCollection"))
    /\ UNCHANGED <<chain, configLoaded, running, op, args, caller, loc, es>>

----------------------------------------------------------------------------
(* wrapUnwrap.ts *)

\* lines 18-32: the import started at module load resolves and sets the module
\* variables; only wrapMON and unwrapWMON read them
ImportConfigResolved ==
    /\ ~configLoaded
    /\ pc \in {"idle", "wm_import", "uw_import"}
    /\ configLoaded' = TRUE
    /\ UNCHANGED <<chain, running, op, args, pc, caller, loc, es, calls, result>>

\* lines 92-102 / 176-186: getWalletClient(), parseEther(amount); next is the pc
\* of the balance read
WrapEntry(a, next) ==
    IF privateKey = "unset" THEN Return(Failure("Private key not found")) /\ loc' = loc
    ELSE IF ~IsDecimalNumber(a) THEN Return(Failure("InvalidDecimalNumber")) /\ loc' = loc
    ELSE /\ pc' = next
         /\ loc' = [NoLoc EXCEPT !.amountIn = parseUnits(a, 18)]
         /\ result' = result

\* lines 84-89: if (!TOKEN_MAP) await importConfig()
Call_wrapMON(a) ==
    /\ pc = "idle"
    /\ op' = "wrapMON"
    /\ args' = [NoArgs EXCEPT !.amount = a]
    /\ IF ~configLoaded THEN pc' = "wm_import" /\ UNCHANGED <<loc, result>>
       ELSE WrapEntry(a, "wm_balance")
    /\ UNCHANGED <<chain, configLoaded, running, caller, es, calls>>

WM_Import ==
    /\ pc = "wm_import"
    /\ configLoaded' = TRUE
    /\ WrapEntry(args.amount, "wm_balance")
    /\ UNCHANGED <<chain, running, op, args, caller, es, calls>>

\* lines 105-114
WM_GetBalance ==
    /\ pc = "wm_balance"
    /\ \E out \in ReadOutcomes :
        /\ calls' = Append(calls, Read("getBalance", "chain", 0, out, balance.native))
        /\ IF out = "throw" THEN Return(Failure("getBalance failed"))
           ELSE IF balance.native < loc.amountIn
           THEN Return(Failure("Insufficient MON balance"))
           ELSE pc' = "wm_deposit" /\ result' = result
    /\ UNCHANGED <<chain, configLoaded, running, op, args, caller, loc, es>>

\* lines 120-126: deposit() with value amountInWei
WM_Deposit ==
    /\ pc = "wm_deposit"
    /\ \E o \in WriteOutcomes :
        LET out == WriteOutcomeOf(o, loc.amountIn >= 0)
        IN  /\ calls' = Append(calls, Write("deposit", "WMON", "", 0, 0, loc.amountIn, out))
            /\ IF out # "ok" THEN Return(Failure("deposit failed"))
               ELSE pc' = "wm_wait" /\ result' = result
    /\ UNCHANGED <<chain, configLoaded, running, op, args, caller, loc, es>>

\* lines 132-153
WM_Wait ==
    /\ pc = "wm_wait"
    /\ \E out \in WaitOutcomes :
        /\ calls' = Append(calls, Wait("deposit", out))
        /\ IF out = "timeout" THEN Return(Failure("deposit wait timed out"))
           ELSE IF out # "success" THEN Return(Failure("Transaction reverted"))
           ELSE Return(Success("wrap"))
    /\ UNCHANGED <<chain, configLoaded, running, op, args, caller, loc, es>>

\* lines 168-173
Call_unwrapWMON(a) ==
    /\ pc = "idle"
    /\ op' = "unwrapWMON"
    /\ args' = [NoArgs EXCEPT !.amount = a]
    /\ IF ~configLoaded THEN pc' = "uw_import" /\ UNCHANGED <<loc, result>>
       ELSE WrapEntry(a, "uw_balance")
    /\ UNCHANGED <<chain, configLoaded, running, caller, es, calls>>

UW_Import ==
    /\ pc = "uw_import"
    /\ configLoaded' = TRUE
    /\ WrapEntry(args.amount, "uw_balance")
    /\ UNCHANGED <<chain, running, op, args, caller, es, calls>>

\* lines 191-202: balanceOf(account) on WMON
UW_BalanceOf ==
    /\ pc = "uw_balance"
    /\ \E out \in ReadOutcomes :
        /\ calls' = Append(calls, Read("balanceOf", "WMON", 0, out, balance.token))
        /\ IF out = "throw" THEN Return(Failure("balanceOf failed"))
           ELSE IF balance.token < loc.amountIn
           THEN Return(Failure("Insufficient WMON balance"))
           ELSE pc' = "uw_withdraw" /\ result' = result
    /\ UNCHANGED <<chain, configLoaded, running, op, args, caller, loc, es>>

\* lines 208-213: withdraw(amountInWei)
UW_Withdraw ==
    /\ pc = "uw_withdraw"
    /\ \E o \in WriteOutcomes :
        LET out == WriteOutcomeOf(o, loc.amountIn >= 0)
        IN  /\ calls' = Append(calls, Write("withdraw", "WMON", "", loc.amountIn, 0, 0, out))
            /\ IF out # "ok" THEN Return(Failure("withdraw failed"))
               ELSE pc' = "uw_wait" /\ result' = result
    /\ UNCHANGED <<chain, configLoaded, running, op, args, caller, loc, es>>

\* lines 219-240
UW_Wait ==
    /\ pc = "uw_wait"
    /\ \E out \in WaitOutcomes :
        /\ calls' = Append(calls, Wait("withdraw", out))
        /\ IF out = "timeout" THEN Return(Failure("withdraw wait timed out"))
           ELSE IF out # "success" THEN Return(Failure("Transaction reverted"))
           ELSE Return(Success("unwrap"))
    /\ UNCHANGED <<chain, configLoaded, running, op, args, caller, loc, es>>

----------------------------------------------------------------------------
(* index.ts: the tools that move tokens themselves *)

\* execute-transfer, lines 553-598: token.toUpperCase() is looked up as it is
Call_executeTransfer(a, tok) ==
    /\ pc = "idle"
    /\ op' = "execute-transfer"
    /\ args' = [NoArgs EXCEPT !.amount = a, !.token = tok]
    /\ IF privateKey = "unset" THEN Return(Failure("No test wallet private key")) /\ loc' = loc
       ELSE IF ~InTokenMap(toUpperCase(tok))
       THEN Return(Failure("Token not supported")) /\ loc' = loc
       ELSE /\ pc' = "et_balance"
            /\ loc' = [NoLoc EXCEPT !.tokenSymbol = toUpperCase(tok)]
            /\ result' = result
    /\ UNCHANGED <<chain, configLoaded, running, caller, es, calls>>

\* lines 601-615: only a native balance of exactly zero stops the transfer
ET_GetBalance ==
    /\ pc = "et_balance"
    /\ \E out \in ReadOutcomes :
        /\ calls' = Append(calls, Read("getBalance", "chain", 0, out, balance.native))
        /\ IF out = "throw" THEN Return(Failure("getBalance failed"))
           ELSE IF balance.native = 0 THEN Return(Failure("The wallet has 0 MON balance"))
           ELSE pc' = "et_send" /\ result' = result
    /\ UNCHANGED <<chain, configLoaded, running, op, args, caller, loc, es>>

\* lines 626-673: sendTransaction or transfer; the response reports success as
\* soon as the hash is returned
ET_Send ==
    /\ pc = "et_send"
    /\ IF ~IsDecimalNumber(args.amount)
       THEN Return(Failure("InvalidDecimalNumber")) /\ calls' = calls /\ loc' = loc
       ELSE \E o \in WriteOutcomes :
            LET amt == parseUnits(args.amount, TokenDecimals(loc.tokenSymbol))
                out == WriteOutcomeOf(o, amt >= 0)
            IN  /\ calls' = Append(calls,
                      IF loc.tokenSymbol = s_MON
                      THEN Write("sendTransaction", "chain", "to", 0, 0, amt, out)
                      ELSE Write("transfer", ContractOf(loc.tokenSymbol), "to",
                                 amt, 0, 0, out))
                /\ loc' = [loc EXCEPT !.amountIn = amt]
                /\ IF out # "ok" THEN Return(Failure("Failed to execute transfer"))
                   ELSE Return(Success("transfer"))
    /\ UNCHANGED <<chain, configLoaded, running, op, args, caller, es>>

\* get-token-balance, lines 175-190: token.toUpperCase() is looked up as it is
Call_getTokenBalance(tok) ==
    /\ pc = "idle"
    /\ op' = "get-token-balance"
    /\ args' = [NoArgs EXCEPT !.token = tok]
    /\ IF ~InTokenMap(toUpperCase(tok))
       THEN Return(Failure("Token not supported")) /\ loc' = loc
       ELSE /\ pc' = "gtb_balance"
            /\ loc' = [NoLoc EXCEPT !.tokenSymbol = toUpperCase(tok)]
            /\ result' = result
    /\ UNCHANGED <<chain, configLoaded, running, caller, es, calls>>

\* lines 193-216: getTokenBalance(address, tokenSymbol)
GTB_GetTokenBalance ==
    /\ pc = "gtb_balance"
    /\ \E out \in ReadOutcomes :
        /\ calls' = Append(calls,
              IF loc.tokenSymbol = s_MON
              THEN Read("getBalance", "chain", 0, out, balance.native)
              ELSE Read("balanceOf", ContractOf(loc.tokenSymbol), 0, out, balance.token))
        /\ IF out = "throw" THEN Return(Failure("Failed to retrieve token balance"))
           ELSE Return(Success("balance"))
    /\ UNCHANGED <<chain, configLoaded, running, op, args, caller, loc, es>>

\* transfer-token, lines 391-436: instructions only, no chain call
Call_transferToken(tok) ==
    /\ pc = "idle"
    /\ op' = "transfer-token"
    /\ args' = [NoArgs EXCEPT !.token = tok]
    /\ IF ~InTokenMap(toUpperCase(tok))
       THEN Return(Failure("Token not supported")) /\ loc' = loc
       ELSE /\ Return(Success("instructions"))
            /\ loc' = [NoLoc EXCEPT !.tokenSymbol = toUpperCase(tok)]
    /\ UNCHANGED <<chain, configLoaded, running, caller, es, calls>>

\* the string has a digit before anything that is no part of a number, so that
\* parseFloat gives a number and not NaN
ParsesAsFloat(s) == IsDecimalNumber(s) /\ \E i \in 1..Len(s) : IsDigit(s[i])

\* execute-unstake, lines 1046-1061
Call_executeUnstake(a) ==
    /\ pc = "idle"
    /\ op' = "execute-unstake"
    /\ args' = [NoArgs EXCEPT !.amount = a, !.useSwap = TRUE]
    /\ IF privateKey = "unset" THEN Return(Failure("Unstaking Feature Disabled"))
       ELSE pc' = "eu_balance" /\ result' = result
    /\ UNCHANGED <<chain, configLoaded, running, caller, loc, es, calls>>

\* lines 1064-1080: getTokenBalance(account, "aprMON"), the parseFloat
\* comparison (false on NaN), then executeSwap("aprMON", "MON", amount, 5.0) up
\* to its first await
EU_GetTokenBalance ==
    /\ pc = "eu_balance"
    /\ \E out \in ReadOutcomes :
        /\ calls' = Append(calls, Read("balanceOf", "aprMON", 0, out, balance.token))
        /\ IF out = "throw"
           THEN Return(Failure("Unstaking Feature Disabled")) /\ UNCHANGED <<es, caller>>
           ELSE IF ParsesAsFloat(args.amount) /\ balance.token < parseUnits(args.amount, 18)
           THEN Return(Failure("Insufficient aprMON Balance")) /\ UNCHANGED <<es, caller>>
           ELSE LET e == ExecuteSwapEntry(s_aprMON, s_MON, args.amount, 500)
                IN  IF e.err # ""
                    THEN /\ es' = [e.frame EXCEPT !.res = Failure(e.err)]
                         /\ Return(Failure("Unstaking Feature Maintenance"))
                         /\ caller' = caller
                    ELSE /\ es' = e.frame
                         /\ caller' = "execute-unstake"
                         /\ pc' = "es_getBlock"
                         /\ result' = result
    /\ UNCHANGED <<chain, configLoaded, running, op, args, loc>>

\* lines 1082-1103
EU_SwapReturned ==
    /\ pc = "eu_swap_returned"
    /\ caller' = "none"
    /\ IF es.res.success THEN Return(Success("converted"))
       ELSE Return(Failure("Unstaking Feature Maintenance"))
    /\ UNCHANGED <<chain, configLoaded, running, op, args, loc, es, calls>>

----------------------------------------------------------------------------
(* index.ts: natural-language-request.  A request is the sequence of its
   words, the text between runs of whitespace; each word is a sequence of
   characters.  The patterns are not anchored: a keyword matches at the end of
   a word, whatever stands before it in that word. *)

\* the words of the patterns of lines 1300-1312 and 1538
W == [wrap |-> <<"w", "r", "a", "p">>,
      warp |-> <<"w", "a", "r", "p">>,
      unwrap |-> <<"u", "n", "w", "r", "a", "p">>,
      unwarp |-> <<"u", "n", "w", "a", "r", "p">>,
      send |-> <<"s", "e", "n", "d">>,
      transfer |-> <<"t", "r", "a", "n", "s", "f", "e", "r">>,
      kirim |-> <<"k", "i", "r", "i", "m">>,
      swap |-> <<"s", "w", "a", "p">>,
      tukar |-> <<"t", "u", "k", "a", "r">>,
      confirm |-> <<"c", "o", "n", "f", "i", "r", "m">>,
      to |-> <<"t", "o">>,
      ke |-> <<"k", "e">>]

\* the keyword is followed by whitespace: it ends the word
EndsWith(w, kw) ==
    Len(w) >= Len(kw) /\ SubSeq(w, Len(w) - Len(kw) + 1, Len(w)) = kw

StartsWith(w, kw) == Len(w) >= Len(kw) /\ SubSeq(w, 1, Len(kw)) = kw

IsLetter(c) == \E i \in 1..26 : LowerAlphabet[i] = c \/ UpperAlphabet[i] = c

IsLetters(w) == Len(w) > 0 /\ \A i \in 1..Len(w) : IsLetter(w[i])

\* the length of the run of digits of w that starts at position p
DigitRun(w, p) ==
    IF p > Len(w) \/ ~IsDigit(w[p]) THEN 0
    ELSE (CHOOSE q \in p..Len(w) :
             /\ \A j \in p..q : IsDigit(w[j])
             /\ (q = Len(w) \/ ~IsDigit(w[q + 1]))) - p + 1

\* (\d+(\.\d+)?) matched at the start of w; <<>> when w starts with no digit
LeadingNumber(w) ==
    LET n == DigitRun(w, 1)
        m == IF n + 1 <= Len(w) /\ w[n + 1] = "." THEN DigitRun(w, n + 2) ELSE 0
    IN  IF n = 0 THEN <<>>
        ELSE IF m = 0 THEN SubSeq(w, 1, n) ELSE SubSeq(w, 1, n + 1 + m)

\* the words at which keyword\s+number matches, for the keywords kws
KeywordNumberAt(r, kws) ==
    { i \in 1..(Len(r) - 1) :
         /\ \E kw \in kws : EndsWith(r[i], kw)
         /\ LeadingNumber(r[i + 1]) # <<>> }

Leftmost(S) == CHOOSE i \in S : \A j \in S : i <= j

\* line 1300: /(warp|wrap)\s+(\d+(\.\d+)?)\s*(mon)?/i
WrapMatches(r) == KeywordNumberAt(r, {W.warp, W.wrap})

\* line 1304: /(unwarp|unwrap)\s+(\d+(\.\d+)?)\s*(wmon|mon)?/i
UnwrapMatches(r) == KeywordNumberAt(r, {W.unwarp, W.unwrap})

\* line 1308, for a request whose amount, token, "to" and address are words of
\* their own: keyword, amount, an optional word of letters, an optional ke/to,
\* then a word that starts with characters of [0-9a-fA-Fx]
TransferShape(r, i) ==
    LET hasTok == i + 2 <= Len(r) /\ IsLetters(r[i + 2])
        j == IF hasTok THEN i + 3 ELSE i + 2
        k == IF j <= Len(r) /\ r[j] \in {W.ke, W.to} THEN j + 1 ELSE j
    IN  [ok |-> /\ LeadingNumber(r[i + 1]) = r[i + 1]
                /\ k <= Len(r) /\ Len(r[k]) > 0
                /\ (IsDigit(r[k][1]) \/ r[k][1] \in {"a", "b", "c", "d", "e", "f", "x"}),
         token |-> IF hasTok THEN r[i + 2] ELSE <<>>,
         to |-> IF k <= Len(r) THEN r[k] ELSE <<>>]

TransferMatches(r) ==
    { i \in KeywordNumberAt(r, {W.kirim, W.transfer, W.send}) : TransferShape(r, i).ok }

\* line 1312, for a request whose amount and tokens are words of their own:
\* keyword, amount, letters, ke/to, letters
SwapMatches(r) ==
    { i \in KeywordNumberAt(r, {W.swap, W.tukar}) :
         /\ i + 4 <= Len(r)
         /\ LeadingNumber(r[i + 1]) = r[i + 1]
         /\ IsLetters(r[i + 2])
         /\ r[i + 3] \in {W.ke, W.to}
         /\ Len(r[i + 4]) > 0 /\ IsLetter(r[i + 4][1]) }

\* the run of letters w starts with
LeadingLetters(w) ==
    IF IsLetters(w) THEN w
    ELSE SubSeq(w, 1, (CHOOSE q \in 1..Len(w) :
                          /\ \A j \in 1..q : IsLetter(w[j])
                          /\ ~IsLetter(w[q + 1])))

\* line 1536: lowerRequest.includes("confirm swap")
IncludesConfirmSwap(r) ==
    \E i \in 1..(Len(r) - 1) : EndsWith(r[i], W.confirm) /\ StartsWith(r[i + 1], W.swap)

\* line 1538: /confirm\s+swap\s+(\d+(\.\d+)?)\s+([a-zA-Z]+)\s+to\s+([a-zA-Z]+)/i
ConfirmMatches(r) ==
    { i \in 1..(Len(r) - 5) :
         /\ EndsWith(r[i], W.confirm) /\ r[i + 1] = W.swap
         /\ LeadingNumber(r[i + 2]) = r[i + 2] /\ r[i + 2] # <<>>
         /\ IsLetters(r[i + 3]) /\ r[i + 4] = W.to
         /\ Len(r[i + 5]) > 0 /\ IsLetter(r[i + 5][1]) }

\* the branch of the if-chain of lines 1315-1582 that a lower-cased request takes
Dispatch(r) ==
    IF WrapMatches(r) # {} THEN "wrap"
    ELSE IF UnwrapMatches(r) # {} THEN "unwrap"
    ELSE IF TransferMatches(r) # {} THEN "transfer"
    ELSE IF SwapMatches(r) # {} THEN "swap"
    ELSE IF IncludesConfirmSwap(r) THEN "confirm"
    ELSE "none"

\* a well-formed address, and one that is too short
ValidAddress == <<"0", "x">> \o [i \in 1..40 |-> "a"]
ShortAddress == <<"0", "x", "1", "2">>

RequestInputs ==
    { <<W.wrap, <<"1">>, s_MON>>,
      <<W.warp, <<"1">>>>,
      <<W.unwrap, <<"1">>, s_WMON>>,
      <<W.unwarp, <<"1">>>>,
      <<<<"U", "n", "w", "r", "a", "p">>, <<"1", ".", "5">>, s_WMON>>,
      <<W.send, <<"1">>, s_USDC, W.to, ValidAddress>>,
      <<W.send, <<"1">>, s_aprMON, W.to, ValidAddress>>,
      <<W.send, <<"1">>, ValidAddress>>,
      <<W.send, <<"1">>, s_MON, W.to, ShortAddress>>,
      <<W.swap, <<"1">>, s_MON, W.to, s_USDC>>,
      <<W.swap, <<"1">>, s_aprMON, W.to, s_MON>>,
      <<W.swap, <<"1">>, s_USDC, W.to, <<"X", "Y", "Z">>>>,
      <<W.confirm, W.swap, <<"1">>, s_USDC, W.to, s_MON>>,
      <<W.confirm, W.swap>>,
      <<<<"h", "e", "l", "l", "o">>>> }

\* lines 1292-1312: the request in lower case, word by word
LowerRequest(req) == [i \in 1..Len(req) |-> toLowerCase(req[i])]

\* natural-language-request, lines 1292-1600: the dispatch and the invoked
\* operation up to its first await
Call_naturalLanguageRequest(req) ==
    LET r == LowerRequest(req)
        d == Dispatch(r)
        base == [NoArgs EXCEPT !.request = req]
    IN
    /\ pc = "idle"
    /\ op' = "natural-language-request"
    /\ UNCHANGED <<chain, configLoaded, running, caller, calls>>
    /\ CASE d = "wrap" ->
              LET a == LeadingNumber(r[Leftmost(WrapMatches(r)) + 1])
              IN  /\ args' = [base EXCEPT !.amount = a, !.invoked = "wrapMON"]
                  /\ es' = es
                  /\ IF ~configLoaded THEN pc' = "wm_import" /\ UNCHANGED <<loc, result>>
                     ELSE WrapEntry(a, "wm_balance")
         [] d = "unwrap" ->
              LET a == LeadingNumber(r[Leftmost(UnwrapMatches(r)) + 1])
              IN  /\ args' = [base EXCEPT !.amount = a, !.invoked = "unwrapWMON"]
                  /\ es' = es
                  /\ IF ~configLoaded THEN pc' = "uw_import" /\ UNCHANGED <<loc, result>>
                     ELSE WrapEntry(a, "uw_balance")
         [] d = "transfer" ->
              LET i == Leftmost(TransferMatches(r))
                  sh == TransferShape(r, i)
                  tok == IF sh.token = <<>> THEN s_MON ELSE toUpperCase(sh.token)
              IN  /\ es' = es
                  /\ IF ~(StartsWith(sh.to, <<"0", "x">>) /\ Len(sh.to) = 42)
                     THEN /\ args' = [base EXCEPT !.amount = r[i + 1], !.token = tok]
                          /\ Return(Failure("Invalid destination address"))
                          /\ loc' = loc
                     ELSE /\ args' = [base EXCEPT !.amount = r[i + 1], !.token = tok,
                                                  !.invoked = "executeTransfer"]
                          /\ IF privateKey = "unset"
                             THEN Return(Failure("No test wallet private key")) /\ loc' = loc
                             ELSE IF ~InTokenMap(toUpperCase(tok))
                             THEN Return(Failure("Token not supported")) /\ loc' = loc
                             ELSE /\ pc' = "et_balance"
                                  /\ loc' = [NoLoc EXCEPT !.tokenSymbol = toUpperCase(tok)]
                                  /\ result' = result
         [] d = "swap" ->
              LET i == Leftmost(SwapMatches(r))
                  f == toUpperCase(r[i + 2])
                  t == toUpperCase(LeadingLetters(r[i + 4]))
                  a == r[i + 1]
                  src == Normalize(f)
                  dst == Normalize(t)
              IN  /\ es' = es
                  /\ IF ~InTokenMap(f) \/ ~InTokenMap(t)
                     THEN /\ args' = [base EXCEPT !.amount = a, !.fromToken = f,
                                                  !.toToken = t]
                          /\ Return(Failure(IF ~InTokenMap(f)
                                            THEN "Source token is not supported"
                                            ELSE "Destination token is not supported"))
                          /\ loc' = loc
                     ELSE /\ args' = [base EXCEPT !.amount = a, !.fromToken = f,
                                                  !.toToken = t, !.invoked = "getSwapQuote"]
                          /\ pc' = "gq_quote"
                          /\ loc' = [NoLoc EXCEPT !.amountIn =
                                        parseUnits(a, TokenDecimals(TokenInfoSymbol(src)))]
                          /\ result' = result
         [] d = "confirm" ->
              IF ConfirmMatches(r) = {}
              THEN /\ args' = base
                   /\ Return(Failure("Could not parse confirmation"))
                   /\ UNCHANGED <<loc, es>>
              ELSE LET i == Leftmost(ConfirmMatches(r))
                       f == toUpperCase(r[i + 3])
                       t == toUpperCase(LeadingLetters(r[i + 5]))
                       e == ExecuteSwapEntry(f, t, r[i + 2], 200)
                   IN  /\ args' = [base EXCEPT !.amount = r[i + 2], !.fromToken = f,
                                               !.toToken = t, !.slippage = 200,
                                               !.invoked = "executeSwap"]
                       /\ loc' = loc
                       /\ IF e.err # "" THEN ES_Finish(e.frame, Failure(e.err))
                          ELSE es' = e.frame /\ pc' = "es_getBlock" /\ result' = result
         [] d = "none" ->
              /\ args' = base
              /\ Return(Failure("I don't recognize that command"))
              /\ UNCHANGED <<loc, es>>

----------------------------------------------------------------------------
----------------------------------------------------------------------------
(* index.ts: the tools the server advertises and the tools it registers *)

\* lines 98-121: capabilities of the McpServer
Capabilities ==
    {"get-mon-balance", "get-token-portfolio", "get-token-balance", "transfer-token",
     "get-latest-blocks", "get-transaction", "execute-transfer", "execute-wrap",
     "execute-unwrap", "deposit", "withdraw", "get-gas-price",
     "natural-language-request", "create-nft-collection", "generate-nft-image",
     "get-swap-quote", "execute-swap", "execute-stake", "execute-unstake",
     "execute-claim", "get-pending-withdrawals"}

\* README, Available Tools
ReadmeTools ==
    {"get-mon-balance", "get-token-balance", "get-token-portfolio", "transfer-token",
     "get-latest-blocks", "get-transaction", "execute-transfer", "execute-wrap",
     "execute-unwrap", "deposit", "withdraw", "get-gas-price", "generate-nft-image",
     "create-nft-collection", "get-swap-quote", "execute-swap", "execute-stake",
     "execute-unstake", "get-pending-withdrawals", "execute-claim",
     "natural-language-request"}

\* the first argument of every server.tool(...) call, lines 125-1286
RegisteredTools ==
    {"get-mon-balance", "get-token-balance", "get-token-portfolio", "get-my-balance",
     "get-my-portfolio", "transfer-token", "get-latest-blocks", "get-transaction",
     "execute-transfer", "execute-wrap", "execute-unwrap", "deposit", "withdraw",
     "get-gas-price", "generate-nft-image", "create-nft-collection", "execute-stake",
     "execute-unstake", "get-pending-withdrawals", "execute-claim",
     "natural-language-request"}

\* a client calls an advertised tool by name; a name without a server.tool
\* registration has no handler to run and the call fails (a registered tool is
\* entered through its handler above)
Call_tool(name) ==
    /\ pc = "idle"
    /\ name \notin RegisteredTools
    /\ op' = name
    /\ args' = NoArgs
    /\ Return(Failure("Tool not found"))
    /\ UNCHANGED <<chain, configLoaded, running, caller, loc, es, calls>>

Next ==
    \/ \E f \in TokenInputs, t \in TokenInputs, a \in AmountInputs, h \in SlippageInputs :
          Call_executeSwap(f, t, a, h)
    \/ ES_GetBlock
    \/ ES_SpApprove
    \/ ES_SpApproveWait
    \/ ES_SpSwap
    \/ ES_SpSwapWait
    \/ ES_GetAmountsOut
    \/ ES_SwapETHForTokens
    \/ ES_Approve
    \/ ES_ApproveWait
    \/ ES_SwapTokens
    \/ ES_SwapWait
    \/ \E f \in TokenInputs, t \in TokenInputs, a \in AmountInputs :
          Call_getSwapQuote(f, t, a)
    \/ GQ_GetAmountsOut
    \/ \E a \in AmountInputs, u \in BOOLEAN : Call_requestUnstakeAprMON(a, u)
    \/ RU_Allowance
    \/ RU_Approve
    \/ RU_ApproveWait
    \/ RU_CallSwap
    \/ RU_SwapReturned
    \/ RU_Withdraw
    \/ RU_WithdrawWait
    \/ RU_Transfer
    \/ RU_TransferWait
    \/ \E a \in AmountInputs : Call_stakeMON(a)
    \/ SM_GetBalance
    \/ SM_Deposit
    \/ SM_Wait
    \/ \E v \in BOOLEAN : Call_claimUnstakedMON(v)
    \/ CL_Claim
    \/ CL_Wait
    \/ ImportConfigResolved
    \/ \E a \in AmountInputs : Call_wrapMON(a)
    \/ WM_Import
    \/ WM_GetBalance
    \/ WM_Deposit
    \/ WM_Wait
    \/ \E a \in AmountInputs : Call_unwrapWMON(a)
    \/ UW_Import
    \/ UW_BalanceOf
    \/ UW_Withdraw
    \/ UW_Wait
    \/ \E a \in AmountInputs, tok \in TokenInputs : Call_executeTransfer(a, tok)
    \/ ET_GetBalance
    \/ ET_Send
    \/ \E a \in AmountInputs : Call_executeUnstake(a)
    \/ EU_GetTokenBalance
    \/ EU_SwapReturned
    \/ \E price \in MintPriceInputs : Call_createNFTCollection(price)
    \/ NFT_Deploy
    \/ NFT_DeployWait
    \/ NFT_Configure
    \/ NFT_ConfigureWait
    \/ \E req \in RequestInputs : Call_naturalLanguageRequest(req)
    \/ \E tok \in TokenInputs : Call_getTokenBalance(tok)
    \/ GTB_GetTokenBalance
    \/ \E tok \in TokenInputs : Call_transferToken(tok)
    \/ \E name \in Capabilities \cup ReadmeTools : Call_tool(name)
    \/ \E v \in BOOLEAN : Call_executeClaim(v)
    \/ Call_getPendingWithdrawals

Spec == Init /\ [][Next]_vars


----------------------------------------------------------------------------
(* Properties of the orchestration *)

Idx == 1..Len(calls)

Finished == pc = "done"

IsApprove(e) == e.kind = "write" /\ e.fn = "approve"

\* a write other than an approve: the transaction the operation is about
IsAction(e) == e.kind = "write" /\ e.fn # "approve"

IsWithdraw(e) == e.kind = "write" /\ e.fn = "withdraw"

IsTransfer(e) == e.kind = "write" /\ e.fn = "transfer"

SwapFns == {"swapExactTokensForTokens", "swapExactETHForTokens", "swapExactTokensForETH"}

\* the wait came back with a receipt
ReceiptReturned(e) == e.kind = "wait" /\ e.out \in {"success", "reverted"}

OrchestratedOps == {"wrapMON", "unwrapWMON", "stakeMON", "executeSwap",
                    "requestUnstakeAprMON", "claimUnstakedMON"}

CanonicalUnstake == op = "requestUnstakeAprMON" /\ ~args.useSwap

SwapUnstake == (op = "requestUnstakeAprMON" /\ args.useSwap) \/ op = "execute-unstake"

\* C1: no orchestrated operation (wrapMON, unwrapWMON, stakeMON, executeSwap with
\* its aprMON -> MON path, requestUnstakeAprMON, claimUnstakedMON) returns a
\* success when the receipt of its action transaction has status reverted
C1_NoSuccessOnRevertedAction ==
    (op \in OrchestratedOps /\ Finished /\ result.success)
        => \A i \in Idx : ~(calls[i].kind = "wait" /\ calls[i].fn # "approve"
                            /\ calls[i].out = "reverted")

\* C2: in executeSwap and requestUnstakeAprMON every approve is preceded by a
\* read of the allowance granted to the same spender on the same token, and
\* that read found the allowance below the amount: with a sufficient
\* allowance no approve is sent
C2_ApproveOnlyAfterShortAllowance ==
    op \in {"executeSwap", "requestUnstakeAprMON"}
        => \A i \in Idx :
              (IsApprove(calls[i]) /\ Attempted(calls[i]))
                  => \E j \in 1..(i - 1) :
                        /\ calls[j].kind = "read" /\ calls[j].fn = "allowance"
                        /\ calls[j].out = "ok"
                        /\ calls[j].to = calls[i].to /\ calls[j].who = calls[i].who
                        /\ BigLt(calls[j].cap,
                                 Big(IF calls[i].who = "router" THEN es.amountIn
                                     ELSE loc.amountIn))

\* C3: every action transaction comes after every submitted approve of the
\* operation, and the call right after a submitted approve is the wait for
\* its receipt, which has returned a receipt before the action is sent
C3_ActionAfterApprovalReceipt ==
    \A i \in Idx, j \in Idx :
        (IsAction(calls[i]) /\ IsApprove(calls[j]) /\ calls[j].out = "ok")
            => /\ j + 1 < i
               /\ ReceiptReturned(calls[j + 1]) /\ calls[j + 1].fn = "approve"

C3_Witness ==
    \E i \in Idx, j \in Idx :
        /\ IsApprove(calls[j]) /\ calls[j].out = "ok"
        /\ IsAction(calls[i]) /\ calls[i].out = "ok"
        /\ j < i

\* C4: after the wait for an action transaction's receipt has timed out, no
\* further transaction is sent and the operation ends with a failure
C4_NothingAfterActionTimeout ==
    \A i \in Idx :
        (calls[i].kind = "wait" /\ calls[i].fn # "approve" /\ calls[i].out = "timeout")
            => /\ \A k \in (i + 1)..Len(calls) : calls[k].kind # "write"
               /\ pc \in {"done", "ru_swap_returned", "eu_swap_returned"}
               /\ Finished => ~result.success

C8_AmountOutMinIsSlippageFloor ==
    \A i \in Idx :
        (calls[i].kind = "write" /\ calls[i].fn \in SwapFns
         /\ calls[i].out # "rejected" /\ es.slippage >= 0 /\ es.slippage <= 10000)
            => /\ es.slippage % 10 = 0
               /\ calls[i].min * 1000 <= es.expectedOutput * (1000 - es.slippage \div 10)
               /\ es.expectedOutput * (1000 - es.slippage \div 10)
                      < (calls[i].min + 1) * 1000
               /\ 0 <= calls[i].min /\ calls[i].min <= es.expectedOutput
               /\ (es.expectedOutput = 1000000 /\ es.slippage = 200)
                      => calls[i].min = 980000

C8_Witness ==
    \E i \in Idx :
        /\ Submitted(calls[i]) /\ calls[i].fn \in SwapFns
        /\ es.expectedOutput = 1000000 /\ es.slippage = 200
        /\ calls[i].min = 980000

\* an amount that is no number, or is zero or negative
InvalidAmount(a) == ~IsDecimalNumber(a) \/ parseUnits(a, 18) <= 0

\* C9: getSwapQuote, executeSwap, wrapMON, unwrapWMON, stakeMON and
\* requestUnstakeAprMON, given a zero, negative or non-numeric amount, make no
\* chain read and no chain write and end with a failure
C9_InvalidAmountTouchesNoChain ==
    (op \in {"getSwapQuote", "executeSwap", "wrapMON", "unwrapWMON", "stakeMON",
             "requestUnstakeAprMON"}
     /\ InvalidAmount(args.amount))
        => /\ \A i \in Idx : ~Attempted(calls[i])
           /\ Finished => ~result.success

\* the native amount and the token amount that a transaction takes from the wallet
NativeMoved(e) == e.value

TokenMoved(e) == IF e.fn \in SwapFns \cup {"withdraw", "transfer"} THEN e.amt ELSE 0

\* C10: wrapMON, unwrapWMON, stakeMON, executeSwap, requestUnstakeAprMON and
\* execute-transfer send a transaction that moves tokens only after a balance
\* read, and only when the wallet holds at least the amount moved
C10_NoMoveBeyondBalance ==
    op \in {"wrapMON", "unwrapWMON", "stakeMON", "executeSwap",
            "requestUnstakeAprMON", "execute-transfer"}
        => \A i \in Idx :
              (Submitted(calls[i]) /\ IsAction(calls[i]) /\ calls[i].fn # "claim")
                  => /\ NativeMoved(calls[i]) <= balance.native
                     /\ TokenMoved(calls[i]) <= balance.token
                     /\ \E j \in 1..(i - 1) :
                           /\ calls[j].kind = "read" /\ calls[j].out = "ok"
                           /\ calls[j].fn \in {"getBalance", "balanceOf"}

WriteCapableOps == {"wrapMON", "unwrapWMON", "stakeMON", "requestUnstakeAprMON",
                    "executeSwap", "claimUnstakedMON", "createNFTCollection",
                    "execute-transfer"}

\* C11: with TEST_WALLET_PRIVATE_KEY unset, wrapMON, unwrapWMON, stakeMON,
\* requestUnstakeAprMON, executeSwap, claimUnstakedMON, createNFTCollection and
\* execute-transfer make no chain read and no chain write and end in a failure
C11_NoKeyNoChainCall ==
    (privateKey = "unset" /\ op \in WriteCapableOps)
        => /\ calls = <<>>
           /\ pc \in {"done", "wm_import", "uw_import"}
           /\ Finished => ~result.success

C11_Witness ==
    /\ privateKey = "unset" /\ op \in WriteCapableOps
    /\ Finished /\ ~result.success /\ calls = <<>>

IsSwap(e) == e.kind = "write" /\ e.fn \in SwapFns

\* C12: every swap call of executeSwap is swapExactETHForTokens with value
\* amountIn when the resolved source is MON, swapExactTokensForETH without
\* value when the destination is MON and the source is not, and
\* swapExactTokensForTokens without value when neither is MON
C12_NativeValueIffSourceMON ==
    op = "executeSwap" =>
        \A i \in Idx : IsSwap(calls[i]) =>
            /\ calls[i].fn = IF es.sourceToken = s_MON THEN "swapExactETHForTokens"
                             ELSE IF es.destToken = s_MON THEN "swapExactTokensForETH"
                             ELSE "swapExactTokensForTokens"
            /\ calls[i].value = IF es.sourceToken = s_MON THEN es.amountIn ELSE 0
            /\ calls[i].to = "router"

C12_Witness ==
    /\ op = "executeSwap" /\ es.sourceToken = s_MON /\ es.amountIn > 0
    /\ \E i \in Idx : Submitted(calls[i]) /\ calls[i].fn = "swapExactETHForTokens"
                      /\ calls[i].value = es.amountIn

NativeSourceOp ==
    \/ op \in {"wrapMON", "stakeMON"}
    \/ op = "executeSwap" /\ Normalize(args.fromToken) = s_MON

\* C13: wrapMON, stakeMON and executeSwap with source MON never send an approve
C13_NoApproveForNativeSource ==
    NativeSourceOp => \A i \in Idx : ~IsApprove(calls[i])

C13_Witness ==
    /\ op = "executeSwap" /\ Normalize(args.fromToken) = s_MON
    /\ Finished /\ result.success
    /\ \E i \in Idx : Submitted(calls[i]) /\ calls[i].fn = "swapExactETHForTokens"
    /\ \A i \in Idx : ~IsApprove(calls[i])

\* C14: every getAmountsOut read and every swap call of getSwapQuote and
\* executeSwap carries the path resolved for the pair: aprMON, sMON, WMON for
\* aprMON -> MON, and otherwise [source, destination] with WMON in the place of
\* a native MON endpoint
C14_QuoteAndSwapSharePath ==
    op \in {"getSwapQuote", "executeSwap"} =>
        \A i \in Idx :
            (calls[i].fn \in SwapFns \cup {"getAmountsOut"})
                => LET src == Normalize(args.fromToken)
                       dst == Normalize(args.toToken)
                   IN  calls[i].path = IF src = s_aprMON /\ dst = s_MON
                                       THEN <<s_aprMON, s_sMON, s_WMON>>
                                       ELSE <<IF src = s_MON THEN s_WMON ELSE src,
                                              IF dst = s_MON THEN s_WMON ELSE dst>>

----------------------------------------------------------------------------
(* Token resolution over every casing of every registry symbol *)

\* the keys of TOKEN_MAP as a set
RegistrySymbols == { TOKEN_KEYS[i] : i \in 1..Len(TOKEN_KEYS) }

RECURSIVE CaseVariants(_)
\* every casing of s
CaseVariants(s) ==
    IF s = <<>> THEN { <<>> }
    ELSE { <<c>> \o r : c \in {LowerChar(s[1]), UpperChar(s[1])},
                        r \in CaseVariants(Tail(s)) }

\* strings that match no registry key in any casing
UnsupportedInputs == { <<>>, <<"M", "O">>, <<"X", "Y", "Z">>, <<"a", "p", "r">>,
                       <<"M", "O", "N", " ">>, <<"s", "M", "O", "N">> }

ResolutionInputs == UNION { CaseVariants(k) : k \in RegistrySymbols } \cup UnsupportedInputs

\* the calls of getSwapQuote and executeSwap with one token drawn from
\* ResolutionInputs, and the steps that follow them
NextResolution ==
    \/ \E f \in ResolutionInputs, t \in {s_MON, s_USDC} :
          \/ Call_getSwapQuote(f, t, <<"1">>)
          \/ Call_getSwapQuote(t, f, <<"1">>)
          \/ Call_executeSwap(f, t, <<"1">>, 200)
          \/ Call_executeSwap(t, f, <<"1">>, 200)
    \/ GQ_GetAmountsOut
    \/ ES_GetBlock
    \/ ES_SpApprove
    \/ ES_SpApproveWait
    \/ ES_SpSwap
    \/ ES_SpSwapWait
    \/ ES_GetAmountsOut
    \/ ES_SwapETHForTokens
    \/ ES_Approve
    \/ ES_ApproveWait
    \/ ES_SwapTokens
    \/ ES_SwapWait

SpecResolution == Init /\ [][NextResolution]_vars

\* the registry keys that s matches when case is ignored
MatchingKeys(s) == { k \in RegistrySymbols : toLowerCase(k) = toLowerCase(s) }

\* the symbol a token argument was resolved to, read from what the operation
\* did: the frame of executeSwap, the path of the quote of getSwapQuote
ResolvedSource ==
    IF op = "executeSwap" THEN es.sourceToken
    ELSE IF calls # <<>> /\ calls[1].path[1] # s_WMON THEN calls[1].path[1]
    ELSE <<>>

ToolEntryPoints == {"get-token-balance", "transfer-token", "execute-transfer",
                    "natural-language-request"}

\* C16: get-token-balance, transfer-token, execute-transfer and the
\* natural-language transfer and swap requests never report as unsupported a
\* token that matches a registry symbol (aprMON, shMON, gMON included) in some
\* casing
C16_ToolsAcceptEveryRegistrySymbol ==
    op \in ToolEntryPoints =>
        /\ MatchingKeys(args.token) # {} => result.error # "Token not supported"
        /\ MatchingKeys(args.fromToken) # {}
              => result.error # "Source token is not supported"
        /\ MatchingKeys(args.toToken) # {}
              => result.error # "Destination token is not supported"

\* C17: the natural-language tool invokes unwrapWMON, and not wrapMON, with the
\* amount of a request 'unwrap <amount> WMON' or 'unwarp <amount>', and invokes
\* wrapMON with the amount of a request 'wrap <amount> MON' or 'warp <amount>'
C17_WrapAndUnwrapDispatch ==
    op = "natural-language-request" =>
        LET r == LowerRequest(args.request)
            numbered == Len(r) >= 2 /\ LeadingNumber(r[2]) # <<>>
        IN  /\ (numbered /\ r[1] \in {W.unwrap, W.unwarp})
                  => args.invoked = "unwrapWMON" /\ args.amount = LeadingNumber(r[2])
            /\ (numbered /\ r[1] \in {W.wrap, W.warp})
                  => args.invoked = "wrapMON" /\ args.amount = LeadingNumber(r[2])

----------------------------------------------------------------------------
(* wrapUnwrap.ts: two calls running at the same time *)

ConcurrentOps == {"wrapMON", "unwrapWMON"}

ConcurrentAmounts == { <<"1">>, <<"x">> }

\* lines 105 / 191, 120-126 / 208-213: what each operation reads and writes
BalanceRead(o, out) ==
    IF o = "wrapMON" THEN Read("getBalance", "chain", 0, out, balance.native)
    ELSE Read("balanceOf", "WMON", 0, out, balance.token)

Held(o) == IF o = "wrapMON" THEN balance.native ELSE balance.token

ActionWrite(o, amt, out) ==
    IF o = "wrapMON" THEN Write("deposit", "WMON", "", 0, 0, amt, out)
    ELSE Write("withdraw", "WMON", "", amt, 0, 0, out)

ActionFn(o) == IF o = "wrapMON" THEN "deposit" ELSE "withdraw"

Running(i) == running.call[i]

\* call i becomes c, and the module variables it read are added to what it read from
Step(i, c, reads) ==
    [running EXCEPT !.call[i] =
        [c EXCEPT !.readFrom = IF reads THEN @ \cup {running.writer} ELSE @]]

\* lines 92-105 / 176-191: getWalletClient(), parseEther(amount), then TOKEN_MAP
\* and publicClient are read for the balance read
Entered(c) ==
    IF privateKey = "unset"
    THEN [c EXCEPT !.pc = "done", !.result = Failure("Private key not found")]
    ELSE IF ~IsDecimalNumber(c.amount)
    THEN [c EXCEPT !.pc = "done", !.result = Failure("InvalidDecimalNumber")]
    ELSE [c EXCEPT !.pc = "balance", !.amountIn = parseUnits(c.amount, 18)]

\* line 32: the import started at module load resolves and assigns lines 21-23
CC_LoadResolved ==
    /\ ~running.loaded
    /\ running' = [running EXCEPT !.loaded = TRUE, !.writer = AtLoad]
    /\ UNCHANGED <<chain, configLoaded, op, args, pc, caller, loc, es, calls, result>>

\* lines 84-89 / 168-173: if (!TOKEN_MAP) await importConfig()
CC_Call(i, o, a) ==
    /\ Running(i).pc = "idle"
    /\ LET c == [NoCall EXCEPT !.op = o, !.amount = a]
       IN  running' = IF running.writer = Unset
                      THEN Step(i, [c EXCEPT !.pc = "import"], FALSE)
                      ELSE Step(i, Entered(c), TRUE)
    /\ UNCHANGED <<chain, configLoaded, op, args, pc, caller, loc, es, calls, result>>

\* lines 18-24: the importConfig() of call i assigns the module variables
CC_ImportConfig(i) ==
    /\ Running(i).pc = "import"
    /\ running' = [running EXCEPT !.writer = i, !.call[i].pc = "imported"]
    /\ UNCHANGED <<chain, configLoaded, op, args, pc, caller, loc, es, calls, result>>

\* line 88: the await of call i returns
CC_Imported(i) ==
    /\ Running(i).pc = "imported"
    /\ running' = Step(i, Entered(Running(i)), Entered(Running(i)).pc = "balance")
    /\ UNCHANGED <<chain, configLoaded, op, args, pc, caller, loc, es, calls, result>>

\* lines 105-114 / 191-202
CC_Balance(i) ==
    /\ Running(i).pc = "balance"
    /\ \E out \in ReadOutcomes :
        LET c == Running(i)
            read == [c EXCEPT !.calls = Append(@, BalanceRead(c.op, out))]
        IN  running' = Step(i,
                IF out = "throw"
                THEN [read EXCEPT !.pc = "done", !.result = Failure("balance read failed")]
                ELSE IF Held(c.op) < c.amountIn
                THEN [read EXCEPT !.pc = "done", !.result = Failure("Insufficient balance")]
                ELSE [read EXCEPT !.pc = "action"], FALSE)
    /\ UNCHANGED <<chain, configLoaded, op, args, pc, caller, loc, es, calls, result>>

\* lines 120-126 / 208-213: WMON_ABI is read for the write
CC_Action(i) ==
    /\ Running(i).pc = "action"
    /\ \E o \in WriteOutcomes :
        LET c == Running(i)
            out == WriteOutcomeOf(o, c.amountIn >= 0)
            written == [c EXCEPT !.calls = Append(@, ActionWrite(c.op, c.amountIn, out))]
        IN  running' = Step(i,
                IF out # "ok"
                THEN [written EXCEPT !.pc = "done", !.result = Failure("write failed")]
                ELSE [written EXCEPT !.pc = "wait"], TRUE)
    /\ UNCHANGED <<chain, configLoaded, op, args, pc, caller, loc, es, calls, result>>

\* lines 132-153 / 219-240: publicClient is read for the wait
CC_Wait(i) ==
    /\ Running(i).pc = "wait"
    /\ \E out \in WaitOutcomes :
        LET c == Running(i)
            waited == [c EXCEPT !.calls = Append(@, Wait(ActionFn(c.op), out)), !.pc = "done"]
        IN  running' = Step(i,
                IF out = "timeout" THEN [waited EXCEPT !.result = Failure("wait timed out")]
                ELSE IF out # "success"
                THEN [waited EXCEPT !.result = Failure("Transaction reverted")]
                ELSE [waited EXCEPT !.result = Success(IF c.op = "wrapMON" THEN "wrap" ELSE "unwrap")],
                TRUE)
    /\ UNCHANGED <<chain, configLoaded, op, args, pc, caller, loc, es, calls, result>>

NextConcurrent ==
    \/ CC_LoadResolved
    \/ \E i \in Callers, o \in ConcurrentOps, a \in ConcurrentAmounts : CC_Call(i, o, a)
    \/ \E i \in Callers : CC_ImportConfig(i)
    \/ \E i \in Callers : CC_Imported(i)
    \/ \E i \in Callers : CC_Balance(i)
    \/ \E i \in Callers : CC_Action(i)
    \/ \E i \in Callers : CC_Wait(i)

SpecConcurrent == Init /\ [][NextConcurrent]_vars

\* the chain calls the operation o makes when it runs alone with amount a and is
\* given the outcomes outs, in order
AloneCalls(o, a, outs) ==
    IF privateKey = "unset" \/ ~IsDecimalNumber(a) \/ outs = <<>> THEN <<>>
    ELSE LET amt == parseUnits(a, 18)
             read == <<BalanceRead(o, outs[1])>>
         IN  IF outs[1] = "throw" \/ Held(o) < amt \/ Len(outs) < 2 THEN read
             ELSE LET written == Append(read, ActionWrite(o, amt, WriteOutcomeOf(outs[2], amt >= 0)))
                  IN  IF WriteOutcomeOf(outs[2], amt >= 0) # "ok" \/ Len(outs) < 3 THEN written
                      ELSE Append(written, Wait(ActionFn(o), outs[3]))

OutcomesOf(c) == [k \in 1..Len(c.calls) |-> c.calls[k].out]

\* C18: when two calls on different tokens run at the same time, the chain
\* calls of each are those, in the same order, that it makes alone, and neither
\* reads module variables of wrapUnwrap that the other call wrote
C18_ConcurrentCallsIndependent ==
    \A i \in Callers, j \in Callers :
        (i # j /\ Running(i).op # "" /\ Running(j).op # "" /\ Running(i).op # Running(j).op)
            => /\ Running(i).calls
                    = AloneCalls(Running(i).op, Running(i).amount, OutcomesOf(Running(i)))
               /\ j \notin Running(i).readFrom

\* the receipt of the transaction submitted by call k was waited for and returned
ReceiptAwaited(k) ==
    \E j \in Idx : j > k /\ calls[j].fn = calls[k].fn /\ ReceiptReturned(calls[j])

\* C19: an operation that reports success has submitted its action transaction
\* and has waited for and got the receipt of every action transaction it
\* submitted before it returned (execute-transfer and the natural-language
\* transfer included)
C19_SuccessOnlyAfterReceipt ==
    (Finished /\ result.success)
        => /\ (op \in WriteCapableOps \/ args.invoked = "executeTransfer")
                 => \E k \in Idx : IsAction(calls[k]) /\ Submitted(calls[k])
           /\ \A k \in Idx : (IsAction(calls[k]) /\ Submitted(calls[k])) => ReceiptAwaited(k)

\* C20: every tool name in the server's capabilities list and in the README
\* tool table has a registered handler, so that calling it runs a handler
C20_AdvertisedToolsRegistered ==
    (op \in Capabilities \cup ReadmeTools /\ Finished)
        => op \in RegisteredTools /\ result.error # "Tool not found"

DisabledTools == {"execute-claim", "get-pending-withdrawals"}

ApprovalNotConfirmed(e) ==
    e.kind = "wait" /\ e.fn = "approve" /\ e.out \in {"reverted", "timeout"}

\* C22: when the receipt of the approval shows a revert, or the wait for it
\* fails, no action transaction (swap, withdraw, transfer) is submitted after it
\* and the operation ends in failure
C22_NoActionAfterFailedApproval ==
    \A j \in Idx :
        ApprovalNotConfirmed(calls[j])
            => /\ \A k \in Idx : k > j => ~IsAction(calls[k])
               /\ Finished => ~result.success

\* C23: before executeSwap sends a swap, for every token pair, a getAmountsOut
\* read of the same call has returned the expected output that the swap's
\* minimum output is derived from
C23_SwapAfterFreshQuote ==
    \A k \in Idx :
        IsSwap(calls[k])
            => \E j \in Idx :
                  /\ j < k
                  /\ calls[j].kind = "read" /\ calls[j].fn = "getAmountsOut"
                  /\ calls[j].out = "ok"
                  /\ calls[j].amt = es.amountIn
                  /\ es.expectedOutput = calls[j].ret

\* the transactions the call handed to the network
SubmittedTxs == { k \in Idx : Submitted(calls[k]) }

\* C24: a call makes a bounded number of chain calls and submits at most 1
\* transaction in wrapMON, unwrapWMON and stakeMON, at most 2 in executeSwap and
\* at most 3 in requestUnstakeAprMON, and never two transactions of the same kind
C24_BoundedTransactions ==
    /\ Len(calls) <= 8
    /\ op \in {"wrapMON", "unwrapWMON", "stakeMON"} => Cardinality(SubmittedTxs) <= 1
    /\ op = "executeSwap" => Cardinality(SubmittedTxs) <= 2
    /\ op = "requestUnstakeAprMON" => Cardinality(SubmittedTxs) <= 3
    /\ op \in {"wrapMON", "unwrapWMON", "stakeMON", "executeSwap", "requestUnstakeAprMON"}
          => \A i \in SubmittedTxs, k \in SubmittedTxs : i # k => calls[i].fn # calls[k].fn

----------------------------------------------------------------------------
(* swap.ts: two executeSwap calls of one wallet on one ERC-20 source token *)

ConcurrentSwapAmounts == { <<"1">>, <<"1", ".", "5">> }

Swapping(i) == running.swap[i]

others == <<chain, configLoaded, op, args, pc, caller, loc, es, calls, result>>

\* lines 186-242: the key, the amount, then the first await
CS_Call(i, a) ==
    /\ Swapping(i).pc = "idle"
    /\ running' = [running EXCEPT !.swap[i] =
          IF privateKey = "unset"
          THEN [@ EXCEPT !.pc = "done", !.result = Failure("Private key not found")]
          ELSE [@ EXCEPT !.pc = "getBlock", !.amountIn = parseUnits(a, 18)]]
    /\ UNCHANGED others

\* lines 244-248 and 352-363: getBlock for the deadline, getAmountsOut for the quote
AfterRead(c, out, next) ==
    IF out = "throw" THEN [c EXCEPT !.pc = "done", !.result = Failure("read failed")]
    ELSE [c EXCEPT !.pc = next]

CS_GetBlock(i) ==
    /\ Swapping(i).pc = "getBlock"
    /\ \E out \in ReadOutcomes :
        running' = [running EXCEPT !.swap[i] = AfterRead(@, out, "getAmountsOut")]
    /\ UNCHANGED others

CS_GetAmountsOut(i) ==
    /\ Swapping(i).pc = "getAmountsOut"
    /\ \E out \in ReadOutcomes :
        running' = [running EXCEPT !.swap[i] = AfterRead(@, out, "approve")]
    /\ UNCHANGED others

\* lines 390-399 / 427-436: approve(router, amountIn) is submitted
CS_Approve(i) ==
    /\ Swapping(i).pc = "approve"
    /\ \E out \in WriteOutcomes :
        running' = [running EXCEPT !.swap[i] =
            IF out # "ok"
            THEN [@ EXCEPT !.pc = "done", !.result = Failure("approve failed")]
            ELSE [@ EXCEPT !.pc = "approve_wait"]]
    /\ UNCHANGED others

\* lines 404-408 / 441-445: the approval is mined and replaces the allowance
\* when it succeeds; the receipt's status is not looked at
CS_ApproveWait(i) ==
    /\ Swapping(i).pc = "approve_wait"
    /\ \E out \in WaitOutcomes :
        running' = [running EXCEPT
            !.routerAllowance = IF out = "success" THEN Swapping(i).amountIn ELSE @,
            !.swap[i] = IF out = "timeout"
                        THEN [@ EXCEPT !.pc = "done", !.result = Failure("wait timed out")]
                        ELSE [@ EXCEPT !.pc = "swap"]]
    /\ UNCHANGED others

\* lines 411-422 / 448-459: the swap of amountIn is submitted
CS_Swap(i) ==
    /\ Swapping(i).pc = "swap"
    /\ \E out \in WriteOutcomes :
        running' = [running EXCEPT !.swap[i] =
            IF out # "ok"
            THEN [@ EXCEPT !.pc = "done", !.result = Failure("swap failed")]
            ELSE [@ EXCEPT !.pc = "swap_wait", !.seen = running.routerAllowance]]
    /\ UNCHANGED others

\* lines 465-495: the swap is mined; the router takes amountIn out of the
\* allowance, and the transaction reverts when the allowance is short
CS_SwapWait(i) ==
    /\ Swapping(i).pc = "swap_wait"
    /\ \E timeout \in BOOLEAN :
        LET enough == running.routerAllowance >= Swapping(i).amountIn
        IN  running' = [running EXCEPT
                !.routerAllowance = IF enough THEN @ - Swapping(i).amountIn ELSE @,
                !.swap[i] = [@ EXCEPT !.pc = "done",
                    !.result = IF timeout THEN Failure("wait timed out")
                               ELSE IF ~enough THEN Failure("Swap transaction reverted")
                               ELSE Success("swap")]]
    /\ UNCHANGED others

NextConcurrentSwap ==
    \/ \E i \in Callers, a \in ConcurrentSwapAmounts : CS_Call(i, a)
    \/ \E i \in Callers : CS_GetBlock(i)
    \/ \E i \in Callers : CS_GetAmountsOut(i)
    \/ \E i \in Callers : CS_Approve(i)
    \/ \E i \in Callers : CS_ApproveWait(i)
    \/ \E i \in Callers : CS_Swap(i)
    \/ \E i \in Callers : CS_SwapWait(i)

SpecConcurrentSwap == Init /\ [][NextConcurrentSwap]_vars

\* C25: when an executeSwap call submits its swap of an ERC-20 source, the
\* router's allowance is at least that call's amountIn, however the steps of
\* two calls of the same wallet on the same token interleave
C25_AllowanceCoversSwapAtSubmit ==
    \A i \in Callers :
        Swapping(i).seen # Unset => Swapping(i).seen >= Swapping(i).amountIn

\* part_003 line 14: the staking contract is the aprMON token contract
AddressOf(c) == IF c = "staking" THEN "aprMON" ELSE c

\* C26: every approve names as spender the contract that the action
\* transaction of the same call is then sent to, and requestUnstakeAprMON with
\* useSwap = true approves no spender but the swap router
C26_SpenderIsActionTarget ==
    /\ \A i \in Idx, k \in Idx :
          (IsApprove(calls[i]) /\ IsAction(calls[k]) /\ i < k)
              => AddressOf(calls[i].who) = AddressOf(calls[k].to)
    /\ (op = "requestUnstakeAprMON" /\ args.useSwap)
          => \A i \in Idx : IsApprove(calls[i]) => calls[i].who = "router"

\* the call ended on its slippage argument: BigInt(slippagePercent * 10) threw,
\* or the swap was rejected for its negative minimum output
FailedOnSlippage ==
    /\ Finished /\ ~result.success
    /\ \/ result.error = "RangeError"
       \/ /\ calls # <<>>
          /\ IsSwap(calls[Len(calls)])
          /\ calls[Len(calls)].out = "rejected"
          /\ calls[Len(calls)].min < 0

\* C27: an executeSwap call that fails because of its slippage argument has
\* submitted no transaction, so that it leaves no approval behind
C27_SlippageFailureSubmitsNothing ==
    (op = "executeSwap" /\ FailedOnSlippage) => SubmittedTxs = {}

\* C28: a natural-language request that matches the confirmation pattern,
\* 'confirm swap <amount> <A> to <B>', reaches the confirmation branch and
\* invokes executeSwap(A, B, amount, 2.0)
C28_ConfirmSwapExecutes ==
    (op = "natural-language-request" /\ ConfirmMatches(LowerRequest(args.request)) # {})
        => LET r == LowerRequest(args.request)
               i == Leftmost(ConfirmMatches(r))
           IN  /\ args.invoked = "executeSwap"
               /\ es.amount = r[i + 2]
               /\ es.fromToken = toUpperCase(r[i + 3])
               /\ es.slippage = 200

----------------------------------------------------------------------------
(* part_003: the approval step of requestUnstakeAprMON for amounts of any size,
   with amountIn kept as whole tokens and units *)

LargeAmountInputs ==
    { <<"1">>, <<"1", ".", "5">>,
      <<"1","0","0","0","0","0","0","0","0","0">>,
      <<"1","0","0","0","0","0","0","0","0","0",".","5">>,
      <<"2","0","0","0","0","0","0","0","0","0">>,
      <<"x">> }

\* allowances the staking contract may hold when the call is made
LargeAllowances ==
    { Big(0), Big(Unit), ApprovalCeiling,
      parseUnitsBig(<<"2","0","0","0","0","0","0","0","0","0">>, 18) }

InitApproval ==
    /\ running = NoneRunning
    /\ privateKey \in {"unset", "expected", "other"}
    /\ balance = [native |-> MaxBalance * Unit, token |-> MaxBalance * Unit]
    /\ \E a \in LargeAllowances :
          allowance = [k \in AllowanceKeys |->
                          IF k = <<"aprMON", "staking">> THEN a ELSE Big(0)]
    /\ configLoaded = FALSE
    /\ op = ""
    /\ args = NoArgs
    /\ pc = "idle"
    /\ caller = "none"
    /\ loc = NoLoc
    /\ es = NoEs
    /\ calls = <<>>
    /\ result = NoResult

\* line 232: parseUnits(amount, 18)
AmountInBig == parseUnitsBig(args.amount, 18)

\* lines 213-239
AS_Call(a, useSwap) ==
    /\ pc = "idle"
    /\ op' = "requestUnstakeAprMON"
    /\ args' = [NoArgs EXCEPT !.amount = a, !.useSwap = useSwap]
    /\ IF privateKey = "unset" THEN Return(Failure("Private key not found"))
       ELSE IF ~IsDecimalNumber(a) THEN Return(Failure("InvalidDecimalNumber"))
       ELSE pc' = "as_allowance" /\ result' = result
    /\ UNCHANGED <<chain, configLoaded, running, caller, loc, es, calls>>

\* lines 244-252: allowance(account, staking contract), then allowance < amountIn
AS_Allowance ==
    /\ pc = "as_allowance"
    /\ \E out \in ReadOutcomes :
        /\ calls' = Append(calls, Ev("read", "allowance", "aprMON", "staking",
                                     0, 0, 0, allowance[<<"aprMON", "staking">>], out, 0))
        /\ IF out = "throw" THEN Return(Failure("allowance read failed"))
           ELSE /\ pc' = IF BigLt(allowance[<<"aprMON", "staking">>], AmountInBig)
                         THEN "as_approve" ELSE "as_act"
                /\ result' = result
    /\ UNCHANGED <<chain, configLoaded, running, op, args, caller, loc, es>>

\* lines 256-264: approve(staking contract, parseUnits("1000000000", 18))
AS_Approve ==
    /\ pc = "as_approve"
    /\ \E out \in WriteOutcomes :
        /\ calls' = Append(calls, Approve("aprMON", "staking", ApprovalCeiling, out))
        /\ IF out # "ok" THEN Return(Failure("approve failed"))
           ELSE pc' = "as_approve_wait" /\ result' = result
    /\ UNCHANGED <<chain, configLoaded, running, op, args, caller, loc, es>>

\* lines 269-273: the approval is mined; as_act is the end of the approval step
AS_ApproveWait ==
    /\ pc = "as_approve_wait"
    /\ \E out \in WaitOutcomes :
        /\ calls' = Append(calls, Wait("approve", out))
        /\ allowance' = IF out = "success"
                        THEN [allowance EXCEPT ![<<"aprMON", "staking">>] = ApprovalCeiling]
                        ELSE allowance
        /\ IF out = "timeout" THEN Return(Failure("approval wait timed out"))
           ELSE pc' = "as_act" /\ result' = result
    /\ UNCHANGED <<privateKey, balance, configLoaded, running, op, args, caller, loc, es>>

NextApproval ==
    \/ \E a \in LargeAmountInputs, u \in BOOLEAN : AS_Call(a, u)
    \/ AS_Allowance
    \/ AS_Approve
    \/ AS_ApproveWait

SpecApproval == InitApproval /\ [][NextApproval]_vars

\* C29: when the approval step of requestUnstakeAprMON is complete, the
\* staking contract's allowance covers amountIn, and every approval the step
\* submitted was for a ceiling of at least amountIn
C29_CeilingCoversAmount ==
    (op = "requestUnstakeAprMON" /\ pc = "as_act")
        => /\ ~BigLt(allowance[<<"aprMON", "staking">>], AmountInBig)
           /\ \A i \in Idx : IsApprove(calls[i]) => ~BigLt(calls[i].cap, AmountInBig)

\* C30: stakeMON sends its deposit only with the key of the expected wallet
\* and after reading a MON balance of at least the amount; with a key of any
\* other address it fails without a chain read or write; and a successful call
\* has submitted a deposit of the amount, with value equal to the amount and
\* the wallet as receiver
C30_StakeOnlyFromExpectedWallet ==
    op = "stakeMON" =>
        /\ privateKey # "expected" => Finished /\ ~result.success /\ calls = <<>>
        /\ \A i \in Idx :
              (calls[i].kind = "write")
                  => /\ privateKey = "expected"
                     /\ calls[i].fn = "deposit"
                     /\ i = 2 /\ calls[1].fn = "getBalance" /\ calls[1].out = "ok"
                     /\ calls[1].ret >= parseUnits(args.amount, 18)
        /\ (Finished /\ result.success)
              => \E i \in Idx :
                    /\ Submitted(calls[i]) /\ calls[i].fn = "deposit"
                    /\ calls[i].amt = parseUnits(args.amount, 18)
                    /\ calls[i].value = parseUnits(args.amount, 18)
                    /\ calls[i].who = "wallet"

\* a stake of a positive amount went through
C30_Witness ==
    /\ op = "stakeMON" /\ Finished /\ result.success
    /\ parseUnits(args.amount, 18) > 0

============================================================================
